---------------------------- MODULE Spec2Model ----------------------------
(***************************************************************************)
(* State machine of the ExcelLikeTable component                           *)
(* (force-app/main/default/lwc/excelLikeTable/excelLikeTable.js): the      *)
(* original/working row stores, the edited-cell ledger, row-scoping        *)
(* (hide / unhide), checkbox selection, the debounced search, the header   *)
(* bulk edit and the virtual window.                                       *)
(*                                                                         *)
(* JavaScript strings are sequences of one-character strings, so that      *)
(* concatenation, split, includes, toLowerCase and parseFloat are computed *)
(* and not assumed.  JavaScript values are tagged records.                 *)
(***************************************************************************)
EXTENDS Integers, Sequences, FiniteSets, TLC

(***************************************************************************)
(* Bounds of the model.                                                    *)
(***************************************************************************)
\* rows produced by generateMockTableData(rowCount) in the bounded model
NumRows == 2

(***************************************************************************)
(* Program constants.                                                      *)
(***************************************************************************)
SEARCH_DEBOUNCE_MS == 300
VIRTUAL_SCROLL_THRESHOLD == 500
VIRTUAL_SCROLL_BUFFER == 20
ROW_HEIGHT == 32

(***************************************************************************)
(* Strings.                                                                *)
(***************************************************************************)
UpperChars == <<"A", "B", "C", "D", "E", "F", "G", "H", "I", "J", "K", "L", "M",
                "N", "O", "P", "Q", "R", "S", "T", "U", "V", "W", "X", "Y", "Z">>

LowerChars == <<"a", "b", "c", "d", "e", "f", "g", "h", "i", "j", "k", "l", "m",
                "n", "o", "p", "q", "r", "s", "t", "u", "v", "w", "x", "y", "z">>

DigitChars == <<"0", "1", "2", "3", "4", "5", "6", "7", "8", "9">>

\* String.prototype.toLowerCase, one character
LowerChar(c) ==
    IF \E i \in 1..26 : UpperChars[i] = c
    THEN LowerChars[CHOOSE i \in 1..26 : UpperChars[i] = c]
    ELSE c

\* String.prototype.toLowerCase
toLowerCase(s) == [i \in 1..Len(s) |-> LowerChar(s[i])]

\* String.prototype.includes
includes(s, t) ==
    \E i \in 0..(Len(s) - Len(t)) : SubSeq(s, i + 1, i + Len(t)) = t

\* the position of the first "_" of s, or Len(s) + 1 when there is none
FirstUnderscore(s) ==
    IF \E i \in 1..Len(s) : s[i] = "_"
    THEN CHOOSE i \in 1..Len(s) : s[i] = "_" /\ \A j \in 1..(i - 1) : s[j] # "_"
    ELSE Len(s) + 1

\* key.split('_')[0]
SplitHead(s) == SubSeq(s, 1, FirstUnderscore(s) - 1)

\* row.Id of a row that has no Id key: undefined, which is no string (no
\* sequence of characters equals it)
NoId == <<"undefined">>

\* a row id inside a template literal: undefined is written out
TemplateString(rowId) ==
    IF rowId = NoId THEN <<"u", "n", "d", "e", "f", "i", "n", "e", "d">> ELSE rowId

\* the template literal `${rowId}_${fieldApi}`
CellKey(rowId, fieldApi) == TemplateString(rowId) \o <<"_">> \o fieldApi

IsDigit(c) == \E i \in 1..10 : DigitChars[i] = c

DigitValue(c) == (CHOOSE i \in 1..10 : DigitChars[i] = c) - 1

\* the length of the longest prefix of s made of decimal digits
RECURSIVE DigitPrefixLen(_)
DigitPrefixLen(s) ==
    IF s = <<>> \/ ~IsDigit(Head(s)) THEN 0 ELSE 1 + DigitPrefixLen(Tail(s))

\* the number written by a non-empty sequence of decimal digits
RECURSIVE DigitsToNat(_)
DigitsToNat(s) ==
    IF s = <<>> THEN 0
    ELSE 10 * DigitsToNat(SubSeq(s, 1, Len(s) - 1)) + DigitValue(s[Len(s)])

\* the decimal digits of a natural number (Number.prototype.toString)
RECURSIVE NatToDigits(_)
NatToDigits(n) ==
    IF n < 10 THEN <<DigitChars[n + 1]>>
    ELSE NatToDigits(n \div 10) \o <<DigitChars[(n % 10) + 1]>>

InfinityStr == <<"I", "n", "f", "i", "n", "i", "t", "y">>

(***************************************************************************)
(* JavaScript values: t is the type tag, n the number of a "num" (and 1/0  *)
(* for a boolean), s the characters of a "str".                            *)
(***************************************************************************)
StrV(s) == [t |-> "str", n |-> 0, s |-> s]
NumV(n) == [t |-> "num", n |-> n, s |-> <<>>]
BoolV(b) == [t |-> "bool", n |-> IF b THEN 1 ELSE 0, s |-> <<>>]
NullV == [t |-> "null", n |-> 0, s |-> <<>>]
UndefinedV == [t |-> "undefined", n |-> 0, s |-> <<>>]
InfV == [t |-> "inf", n |-> 0, s |-> <<>>]
NaNV == [t |-> "nan", n |-> 0, s |-> <<>>]

\* String(value)
String(v) ==
    CASE v.t = "str" -> v.s
      [] v.t = "num" -> NatToDigits(v.n)
      [] v.t = "bool" -> IF v.n = 1 THEN <<"t", "r", "u", "e">>
                         ELSE <<"f", "a", "l", "s", "e">>
      [] v.t = "null" -> <<"n", "u", "l", "l">>
      [] v.t = "undefined" -> <<"u", "n", "d", "e", "f", "i", "n", "e", "d">>
      [] v.t = "inf" -> InfinityStr
      [] v.t = "nan" -> <<"N", "a", "N">>

\* JavaScript truthiness
Truthy(v) ==
    CASE v.t = "str" -> v.s # <<>>
      [] v.t = "num" -> v.n # 0
      [] v.t = "bool" -> v.n = 1
      [] v.t = "inf" -> TRUE
      [] OTHER -> FALSE

\* parseFloat over unsigned decimal integers and Infinity: the numeric prefix
\* of String(v), NaN when there is none
parseFloat(v) ==
    LET s == String(v)
        k == DigitPrefixLen(s)
    IN  IF k > 0 THEN NumV(DigitsToNat(SubSeq(s, 1, k)))
        ELSE IF Len(s) >= 8 /\ SubSeq(s, 1, 8) = InfinityStr THEN InfV
        ELSE NaNV

\* parseFloat(x) without the fallback to 0
ParseNumberOrZero_KeepsNaN(v) == parseFloat(v)

\* parseFloat(x) || 0
ParseNumberOrZero(v) ==
    LET p == parseFloat(v) IN IF Truthy(p) THEN p ELSE NumV(0)

\* JSON.parse(JSON.stringify(v)) of one value: Infinity and NaN become null
JsonValue(v) == IF v.t \in {"inf", "nan"} THEN NullV ELSE v

(***************************************************************************)
(* Rows: Id is the row identifier, cells maps the row's own keys to values.*)
(***************************************************************************)
\* row[fieldApi]
GetField(row, f) == IF f \in DOMAIN row.cells THEN row.cells[f] ELSE UndefinedV

\* row[fieldApi] = v
SetField(row, f, v) ==
    [row EXCEPT !.cells = [g \in (DOMAIN row.cells) \cup {f} |->
                              IF g = f THEN v ELSE row.cells[g]]]

\* JSON.parse(JSON.stringify(rows)): keys holding undefined are dropped
JsonCopy(rows) ==
    [i \in 1..Len(rows) |->
        [Id |-> rows[i].Id,
         cells |-> [g \in {h \in DOMAIN rows[i].cells :
                              rows[i].cells[h].t # "undefined"} |->
                       JsonValue(rows[i].cells[g])]]]

\* the ids of a row sequence
IdsOf(rows) == {rows[i].Id : i \in 1..Len(rows)}

(***************************************************************************)
(* Data sets handed to processTableData.                                   *)
(***************************************************************************)
NameField == <<"N", "a", "m", "e">>
AmountField == <<"A", "m", "t", "_", "_", "c">>

\* generateColumns(), bounded to its first column
MockColumns == <<[field_api |-> NameField, dataType |-> "text"]>>

\* generateId(index): a prefix and the index, no underscore
generateId(i) == <<"r">> \o NatToDigits(i)

\* generateName(index) picks at random; the model fixes one outcome per index
generateName(i) == IF i % 2 = 1 THEN <<"x">> ELSE <<"y">>

\* generateRows(count)
generateRows(count) ==
    [i \in 1..count |->
        [Id |-> generateId(i),
         cells |-> [f \in {NameField} |-> StrV(generateName(i))]]]

\* generateMockTableData(rowCount)
generateMockTableData(rowCount) ==
    [columns |-> MockColumns, rows |-> generateRows(rowCount)]

\* a data set a host passes to setTableData: a text and a number column, and
\* a row identifier that contains an underscore
HostData ==
    [columns |-> <<[field_api |-> NameField, dataType |-> "text"],
                   [field_api |-> AmountField, dataType |-> "number"]>>,
     rows |-> <<[Id |-> <<"a", "_", "b">>,
                 cells |-> [f \in {NameField, AmountField} |->
                              IF f = NameField THEN StrV(<<"y">>) ELSE NumV(5)]]>>]

\* a data set whose only row lacks the identifier field
MissingIdData ==
    [columns |-> MockColumns,
     rows |-> <<[Id |-> NoId, cells |-> [f \in {NameField} |-> StrV(<<"y">>)]]>>]

\* the rows of a data set large enough for virtual scrolling
LargeRows == VIRTUAL_SCROLL_THRESHOLD + 1

\* a data set of more than VIRTUAL_SCROLL_THRESHOLD rows
LargeData == generateMockTableData(LargeRows)

\* the data sets a host passes to setTableData
HostDataSets == {HostData, generateMockTableData(NumRows), MissingIdData}

\* what the user can type into a cell or header input of a column
InputsOf(dataType) ==
    CASE dataType = "boolean" -> {BoolV(TRUE), BoolV(FALSE)}
      [] dataType = "number" -> {StrV(<<"7">>), StrV(<<"x">>)}
      [] OTHER -> {StrV(<<"x">>)}

\* what the user can type into the search box: a term, or nothing (the text
\* erased)
SearchInputs == {<<"X">>, <<>>}

\* the scroll positions and heights of the table container that scroll events
\* report
ScrollInputs ==
    {[scrollTop |-> 0, clientHeight |-> 640],
     [scrollTop |-> 3200, clientHeight |-> 640],
     [scrollTop |-> 3210, clientHeight |-> 650]}

(***************************************************************************)
(* State of the component.                                                 *)
(***************************************************************************)
VARIABLES
    columns,                  \* processed column metadata, in load order
    columnMetadataMap,        \* field_api -> column
    originalData,             \* rows as loaded
    workingData,              \* rows as edited
    workingDataMap,           \* _workingDataMap: row id -> index of the row in workingData
    visibleRowIds,
    hiddenRowIds,
    selectedRowIds,
    hiddenRowCheckboxStates,  \* row id -> was selected when hidden
    editedCells,              \* the keys of the editedCells Map
    isLoading,
    searchTerm,
    activeHeaderEditColumn,   \* NullV or StrV(field_api)
    headerEditValue,          \* NullV, StrV(draft) or BoolV(draft)
    hiddenRowCount,
    virtualScrollEnabled,
    scrollListenerAdded,      \* container._scrollListenerAdded of renderedCallback
    visibleStartIndex,
    visibleEndIndex,
    error,                    \* NullV or the message of the error a load caught
    searchDebounceTimer,      \* _searchDebounceTimer: the id of the commit it
                              \* can still cancel, 0 when it names none
    timeouts,                 \* the commits setTimeout holds: [id, value]
    lastOp,                   \* history: the handler that ran last
    written,                  \* history: cells written since the last load or reset
    before,                   \* history: what the last hide or reset started from
    thrown,                   \* history: the last handler raised a TypeError
    dispatched,               \* history: the events the last handler dispatched
    typed                     \* history: the raw value the last cell edit received

engineVars ==
    <<columns, columnMetadataMap, originalData, workingData, workingDataMap,
      visibleRowIds, hiddenRowIds, selectedRowIds, hiddenRowCheckboxStates,
      editedCells, isLoading, searchTerm,
      activeHeaderEditColumn, headerEditValue, hiddenRowCount,
      virtualScrollEnabled, scrollListenerAdded, visibleStartIndex,
      visibleEndIndex, error, searchDebounceTimer, timeouts>>

vars == <<engineVars, lastOp, written, before, thrown, dispatched, typed>>

\* _searchDebounceTimer naming no pending timeout: undefined, or the id of a
\* timeout that has run (clearTimeout of either does nothing)
NoTimer == 0
NoScroll == [scrollTop |-> 0, clientHeight |-> 0, startIndex |-> 0, endIndex |-> 0]
NoBefore ==
    [op |-> "none", sel |-> {}, hid |-> {}, edits |-> FALSE, pending |-> {},
     scroll |-> NoScroll]
EmptyMap == [x \in {} |-> TRUE]

Min(a, b) == IF a < b THEN a ELSE b
Max(a, b) == IF a > b THEN a ELSE b

\* the field initialisers of the class
Init ==
    /\ columns = <<>>
    /\ columnMetadataMap = EmptyMap
    /\ originalData = <<>>
    /\ workingData = <<>>
    /\ workingDataMap = EmptyMap
    /\ visibleRowIds = {}
    /\ hiddenRowIds = {}
    /\ selectedRowIds = {}
    /\ hiddenRowCheckboxStates = EmptyMap
    /\ editedCells = {}
    /\ isLoading = TRUE
    /\ searchTerm = <<>>
    /\ activeHeaderEditColumn = NullV
    /\ headerEditValue = NullV
    /\ hiddenRowCount = 0
    /\ virtualScrollEnabled = FALSE
    /\ scrollListenerAdded = FALSE
    /\ visibleStartIndex = 0
    /\ visibleEndIndex = 50
    /\ error = NullV
    /\ searchDebounceTimer = NoTimer
    /\ timeouts = {}
    /\ lastOp = "constructor"
    /\ written = {}
    /\ before = NoBefore
    /\ thrown = FALSE
    /\ dispatched = <<>>
    /\ typed = NullV

(***************************************************************************)
(* What a handler leaves behind besides the component's state.             *)
(***************************************************************************)
\* the CustomEvent of fireDataChangedEvent
DataChangedEvent(rowId, fieldApi, oldValue, newValue) ==
    [type |-> "datachanged", rowId |-> rowId, fieldApi |-> fieldApi,
     oldValue |-> oldValue, newValue |-> newValue, selectedIds |-> {}]

\* the CustomEvent of fireRowsSelectedEvent
RowsSelectedEvent(ids) ==
    [type |-> "rowsselected", rowId |-> <<>>, fieldApi |-> <<>>,
     oldValue |-> UndefinedV, newValue |-> UndefinedV, selectedIds |-> ids]

\* the handler returns, having dispatched the events evts in this order
Returns(evts) ==
    /\ thrown' = FALSE
    /\ dispatched' = evts
    /\ typed' = NullV

\* the handler ends in an uncaught TypeError (a property of undefined is read)
\* before it has dispatched anything
Raises ==
    /\ thrown' = TRUE
    /\ dispatched' = <<>>
    /\ typed' = NullV

(***************************************************************************)
(* Derived values (getters).                                               *)
(***************************************************************************)
\* the lookup map of rows[lo..hi]: the entries of the later half replace those
\* of the earlier half that have the same Id
RECURSIVE MapOfRange(_, _, _)
MapOfRange(rows, lo, hi) ==
    IF lo > hi THEN EmptyMap
    ELSE IF lo = hi THEN (rows[lo].Id :> lo)
    ELSE LET mid == (lo + hi) \div 2
         IN  MapOfRange(rows, mid + 1, hi) @@ MapOfRange(rows, lo, mid)

\* buildWorkingDataMap: a later row with the same Id replaces an earlier one
BuildWorkingDataMap(rows) == MapOfRange(rows, 1, Len(rows))

\* the search predicate comparing without toLowerCase()
RowMatches_CaseSensitive(row, cols, term) ==
    \E k \in 1..Len(cols) :
        LET value == GetField(row, cols[k].field_api)
        IN  /\ value.t \notin {"null", "undefined"}
            /\ includes(String(value), term)

\* the search predicate of filteredRows
RowMatches(row, cols, term) ==
    \E k \in 1..Len(cols) :
        LET value == GetField(row, cols[k].field_api)
        IN  /\ value.t \notin {"null", "undefined"}
            /\ includes(toLowerCase(String(value)), toLowerCase(term))

\* filteredRows with the search applied to every working row
FilteredRowsOf_SearchOnly(rows, visible, term, cols) ==
    LET Hit(row) == RowMatches(row, cols, term)
    IN  IF term # <<>> THEN SelectSeq(rows, Hit)
        ELSE SelectSeq(rows, LAMBDA row : row.Id \in visible)

\* get filteredRows, over explicit state
FilteredRowsOf(rows, visible, term, cols) ==
    LET Seen(row) == row.Id \in visible
        Hit(row) == RowMatches(row, cols, term)
        scoped == SelectSeq(rows, Seen)
    IN  IF term # <<>> THEN SelectSeq(scoped, Hit) ELSE scoped

\* get filteredRows
filteredRows == FilteredRowsOf(workingData, visibleRowIds, searchTerm, columns)

\* Array.prototype.slice(from, to) for 0 <= from
Slice(seq, from, to) == SubSeq(seq, from + 1, Min(to, Len(seq)))

\* get virtualScrollTopPadding, in px
virtualScrollTopPadding ==
    IF ~virtualScrollEnabled THEN 0 ELSE visibleStartIndex * ROW_HEIGHT

\* get virtualScrollBottomPadding, in px
virtualScrollBottomPadding ==
    IF ~virtualScrollEnabled THEN 0
    ELSE (Len(filteredRows) - visibleEndIndex) * ROW_HEIGHT

\* get displayRows (the rows, without the display decoration)
displayRows ==
    IF virtualScrollEnabled
    THEN Slice(filteredRows, visibleStartIndex, visibleEndIndex)
    ELSE filteredRows

\* get selectAllChecked without the rows.length > 0 guard
selectAllChecked_NoEmptyGuard ==
    \A i \in 1..Len(filteredRows) : filteredRows[i].Id \in selectedRowIds

\* get selectAllChecked
selectAllChecked ==
    /\ Len(filteredRows) > 0
    /\ \A i \in 1..Len(filteredRows) : filteredRows[i].Id \in selectedRowIds

\* get selectAllIndeterminate
selectAllIndeterminate ==
    LET Chosen(row) == row.Id \in selectedRowIds
        selectedCount == Len(SelectSeq(filteredRows, Chosen))
    IN  selectedCount > 0 /\ selectedCount < Len(filteredRows)

\* getWorkingData()
getWorkingData == JsonCopy(workingData)

\* getOriginalData()
getOriginalData == JsonCopy(originalData)

\* getEditedCellKeys(), as a set
getEditedCellKeys == editedCells

\* getSelectedRowIds(), as a set
getSelectedRowIds == selectedRowIds

\* the row ids getModifiedRows() recovers from the ledger keys
EditedRowIds == {SplitHead(key) : key \in editedCells}

\* getModifiedRows(), as a set of row snapshots
getModifiedRows ==
    {JsonCopy(<<workingData[workingDataMap[id]]>>)[1] :
        id \in EditedRowIds \cap DOMAIN workingDataMap}

(***************************************************************************)
(* Loading and resetting.                                                  *)
(***************************************************************************)
\* processTableData(data) also emptying the committed search term
processTableData_ClearsSearch(data) ==
    /\ columns' = data.columns
    /\ columnMetadataMap' =
           [f \in {data.columns[k].field_api : k \in 1..Len(data.columns)} |->
               data.columns[CHOOSE k \in 1..Len(data.columns) :
                   /\ data.columns[k].field_api = f
                   /\ \A j \in (k + 1)..Len(data.columns) :
                          data.columns[j].field_api # f]]
    /\ originalData' = JsonCopy(data.rows)
    /\ workingData' = JsonCopy(data.rows)
    /\ workingDataMap' = BuildWorkingDataMap(workingData')
    /\ visibleRowIds' = IdsOf(workingData')
    /\ hiddenRowIds' = {}
    /\ selectedRowIds' = {}
    /\ hiddenRowCheckboxStates' = EmptyMap
    /\ editedCells' = {}
    /\ hiddenRowCount' = 0
    /\ virtualScrollEnabled' = (Len(workingData') > VIRTUAL_SCROLL_THRESHOLD)
    /\ scrollListenerAdded' = (scrollListenerAdded \/ virtualScrollEnabled')
    /\ IF virtualScrollEnabled'
       THEN /\ visibleStartIndex' = 0
            /\ visibleEndIndex' = Min(50 + VIRTUAL_SCROLL_BUFFER, Len(workingData'))
       ELSE UNCHANGED <<visibleStartIndex, visibleEndIndex>>
    /\ isLoading' = FALSE
    /\ searchTerm' = <<>>
    /\ UNCHANGED <<activeHeaderEditColumn,
                   headerEditValue, searchDebounceTimer, timeouts, error>>
    /\ written' = {}
    /\ before' = NoBefore

\* processTableData(data), for data whose columns and rows are well formed
processTableData(data) ==
    /\ columns' = data.columns
    /\ columnMetadataMap' =
           [f \in {data.columns[k].field_api : k \in 1..Len(data.columns)} |->
               data.columns[CHOOSE k \in 1..Len(data.columns) :
                   /\ data.columns[k].field_api = f
                   /\ \A j \in (k + 1)..Len(data.columns) :
                          data.columns[j].field_api # f]]
    /\ originalData' = JsonCopy(data.rows)
    /\ workingData' = JsonCopy(data.rows)
    /\ workingDataMap' = BuildWorkingDataMap(workingData')
    /\ visibleRowIds' = IdsOf(workingData')
    /\ hiddenRowIds' = {}
    /\ selectedRowIds' = {}
    /\ hiddenRowCheckboxStates' = EmptyMap
    /\ editedCells' = {}
    /\ hiddenRowCount' = 0
    /\ virtualScrollEnabled' = (Len(workingData') > VIRTUAL_SCROLL_THRESHOLD)
    /\ scrollListenerAdded' = (scrollListenerAdded \/ virtualScrollEnabled')
    /\ IF virtualScrollEnabled'
       THEN /\ visibleStartIndex' = 0
            /\ visibleEndIndex' = Min(50 + VIRTUAL_SCROLL_BUFFER, Len(workingData'))
       ELSE UNCHANGED <<visibleStartIndex, visibleEndIndex>>
    /\ isLoading' = FALSE
    /\ UNCHANGED <<searchTerm, activeHeaderEditColumn,
                   headerEditValue, searchDebounceTimer, timeouts, error>>
    /\ written' = {}
    /\ before' = NoBefore

\* connectedCallback() -> initializeMockData()
initializeMockData ==
    /\ isLoading
    /\ processTableData(generateMockTableData(NumRows))
    /\ lastOp' = "initializeMockData"
    /\ Returns(<<>>)

\* setTableData(data)
setTableData ==
    /\ ~isLoading
    /\ \E data \in HostDataSets : processTableData(data)
    /\ lastOp' = "setTableData"
    /\ Returns(<<>>)

\* setTableData(data) with a data set of more than VIRTUAL_SCROLL_THRESHOLD rows
setLargeTableData ==
    /\ ~isLoading
    /\ processTableData(LargeData)
    /\ lastOp' = "setTableData"
    /\ Returns(<<>>)

\* resetToOriginal() without editedCells.clear()
resetToOriginal_KeepsLedger ==
    /\ ~isLoading
    /\ workingData' = JsonCopy(originalData)
    /\ workingDataMap' = BuildWorkingDataMap(workingData')
    /\ visibleRowIds' = IdsOf(workingData')
    /\ hiddenRowIds' = {}
    /\ selectedRowIds' = {}
    /\ hiddenRowCheckboxStates' = EmptyMap
    /\ editedCells' = editedCells
    /\ hiddenRowCount' = 0
    /\ searchTerm' = <<>>
    /\ UNCHANGED <<columns, columnMetadataMap, originalData, isLoading, activeHeaderEditColumn, headerEditValue,
                   virtualScrollEnabled, scrollListenerAdded, visibleStartIndex, visibleEndIndex,
                   searchDebounceTimer, timeouts, error>>
    /\ lastOp' = "resetToOriginal"
    /\ Returns(<<>>)
    /\ written' = {}
    /\ before' = [op |-> "resetToOriginal", sel |-> selectedRowIds,
                  hid |-> hiddenRowIds, edits |-> written # {},
                  pending |-> {}, scroll |-> NoScroll]

\* resetToOriginal() without this.searchTerm = ''
resetToOriginal_KeepsSearch ==
    /\ ~isLoading
    /\ workingData' = JsonCopy(originalData)
    /\ workingDataMap' = BuildWorkingDataMap(workingData')
    /\ visibleRowIds' = IdsOf(workingData')
    /\ hiddenRowIds' = {}
    /\ selectedRowIds' = {}
    /\ hiddenRowCheckboxStates' = EmptyMap
    /\ editedCells' = {}
    /\ hiddenRowCount' = 0
    /\ searchTerm' = searchTerm
    /\ UNCHANGED <<columns, columnMetadataMap, originalData, isLoading, activeHeaderEditColumn, headerEditValue,
                   virtualScrollEnabled, scrollListenerAdded, visibleStartIndex, visibleEndIndex,
                   searchDebounceTimer, timeouts, error>>
    /\ lastOp' = "resetToOriginal"
    /\ Returns(<<>>)
    /\ written' = {}
    /\ before' = [op |-> "resetToOriginal", sel |-> selectedRowIds,
                  hid |-> hiddenRowIds, edits |-> written # {},
                  pending |-> {}, scroll |-> NoScroll]

\* resetToOriginal()
resetToOriginal ==
    /\ ~isLoading
    /\ workingData' = JsonCopy(originalData)
    /\ workingDataMap' = BuildWorkingDataMap(workingData')
    /\ visibleRowIds' = IdsOf(workingData')
    /\ hiddenRowIds' = {}
    /\ selectedRowIds' = {}
    /\ hiddenRowCheckboxStates' = EmptyMap
    /\ editedCells' = {}
    /\ hiddenRowCount' = 0
    /\ searchTerm' = <<>>
    /\ UNCHANGED <<columns, columnMetadataMap, originalData, isLoading, activeHeaderEditColumn, headerEditValue,
                   virtualScrollEnabled, scrollListenerAdded, visibleStartIndex, visibleEndIndex,
                   searchDebounceTimer, timeouts, error>>
    /\ lastOp' = "resetToOriginal"
    /\ Returns(<<>>)
    /\ written' = {}
    /\ before' = [op |-> "resetToOriginal", sel |-> selectedRowIds,
                  hid |-> hiddenRowIds, edits |-> written # {},
                  pending |-> {}, scroll |-> NoScroll]

(***************************************************************************)
(* Writing cells.                                                          *)
(***************************************************************************)
\* the type conversion of both write paths
ConvertInput(col, value) ==
    IF col.dataType = "number" THEN ParseNumberOrZero(value) ELSE value

\* workingRow[fieldApi] = value for the rows the lookup map holds for ids
WriteRows(rows, map, ids, fieldApi, value) ==
    [i \in 1..Len(rows) |->
        IF \E id \in ids \cap DOMAIN map : map[id] = i
        THEN SetField(rows[i], fieldApi, value)
        ELSE rows[i]]

\* the ledger replaced by the keys of the last write
MarkEdited_Replaces(edited, map, ids, fieldApi) ==
    {CellKey(id, fieldApi) : id \in ids \cap DOMAIN map}

\* the ledger marked by a single-row write only
MarkEdited_SingleOnly(edited, map, ids, fieldApi) ==
    IF Cardinality(ids) = 1
    THEN edited \cup {CellKey(id, fieldApi) : id \in ids \cap DOMAIN map}
    ELSE edited

\* editedCells.set(`${rowId}_${fieldApi}`, true) for the rows found
MarkEdited(edited, map, ids, fieldApi) ==
    edited \cup {CellKey(id, fieldApi) : id \in ids \cap DOMAIN map}

\* the field_api of the loaded columns
FieldsOf(cols) == {cols[k].field_api : k \in 1..Len(cols)}

\* the row ids events carry: those of the displayed rows, and the ids an input
\* rendered for an earlier data set still holds
EventRowIds == IdsOf(displayRows) \cup (IdsOf(HostData.rows) \ DOMAIN workingDataMap)

\* the field ids events carry: those of the loaded columns, and the field id
\* an input rendered for an earlier data set still holds
EventFields == FieldsOf(columns) \cup {AmountField}

\* updatedIds with oldValue read after the write
DataChangedEvents_OldAfterWrite(rows, map, scope, fieldApi, newValue) ==
    LET Found(row) == row.Id \in DOMAIN map
        updated == SelectSeq(scope, Found)
    IN  [i \in 1..Len(updated) |->
            DataChangedEvent(updated[i].Id, fieldApi, newValue, newValue)]

\* the events fired for a write of newValue to fieldApi of the rows of scope
\* (rows with distinct ids): one for each row the lookup map holds, in the
\* order of scope, oldValue being the value the row held before the write
DataChangedEvents(rows, map, scope, fieldApi, newValue) ==
    LET Found(row) == row.Id \in DOMAIN map
        updated == SelectSeq(scope, Found)
    IN  [i \in 1..Len(updated) |->
            DataChangedEvent(updated[i].Id, fieldApi,
                             GetField(rows[map[updated[i].Id]], fieldApi),
                             newValue)]

\* handleCellChange(event): the inputs exist, once data is loaded, for the
\* displayed rows and the loaded columns
handleCellChange ==
    /\ ~isLoading
    /\ \E rowId \in EventRowIds, fieldApi \in EventFields :
         IF fieldApi \notin DOMAIN columnMetadataMap
         THEN \* col is undefined and col.dataType is read
              /\ Raises
              /\ UNCHANGED <<workingData, editedCells, written>>
         ELSE LET col == columnMetadataMap[fieldApi] IN
              \E raw \in InputsOf(col.dataType) :
                LET newValue == ConvertInput(col, raw)
                IN  /\ workingData' = WriteRows(workingData, workingDataMap,
                                                {rowId}, fieldApi, newValue)
                    /\ editedCells' = MarkEdited(editedCells, workingDataMap,
                                                 {rowId}, fieldApi)
                    /\ written' = written \cup
                           {<<id, fieldApi>> : id \in {rowId} \cap DOMAIN workingDataMap}
                    /\ thrown' = FALSE
                    /\ dispatched' =
                           DataChangedEvents(workingData, workingDataMap,
                                             <<[Id |-> rowId]>>, fieldApi, newValue)
                    /\ typed' = raw
    /\ UNCHANGED <<columns, columnMetadataMap, originalData, workingDataMap,
                   visibleRowIds, hiddenRowIds, selectedRowIds,
                   hiddenRowCheckboxStates, isLoading,
                   searchTerm, activeHeaderEditColumn, headerEditValue,
                   hiddenRowCount, virtualScrollEnabled, scrollListenerAdded, visibleStartIndex,
                   visibleEndIndex, searchDebounceTimer, timeouts, error>>
    /\ lastOp' = "handleCellChange"
    /\ before' = NoBefore

(***************************************************************************)
(* Header bulk edit.                                                       *)
(***************************************************************************)
\* the header input of the column being edited is rendered
HeaderInputRendered ==
    /\ activeHeaderEditColumn.t = "str"
    /\ activeHeaderEditColumn.s \in DOMAIN columnMetadataMap

\* handleHeaderDoubleClick(event)
handleHeaderDoubleClick ==
    /\ ~isLoading
    /\ \E fieldApi \in EventFields :
         /\ activeHeaderEditColumn' = StrV(fieldApi)
         /\ IF fieldApi \notin DOMAIN columnMetadataMap
            THEN \* col is undefined and col.dataType is read
                 /\ Raises
                 /\ UNCHANGED headerEditValue
            ELSE /\ headerEditValue' =
                        IF columnMetadataMap[fieldApi].dataType = "boolean"
                        THEN BoolV(FALSE) ELSE StrV(<<>>)
                 /\ Returns(<<>>)
    /\ UNCHANGED <<columns, columnMetadataMap, originalData, workingData,
                   workingDataMap, visibleRowIds, hiddenRowIds, selectedRowIds,
                   hiddenRowCheckboxStates, editedCells, isLoading, searchTerm, hiddenRowCount, virtualScrollEnabled, scrollListenerAdded,
                   visibleStartIndex, visibleEndIndex, searchDebounceTimer, timeouts, error,
                   written>>
    /\ lastOp' = "handleHeaderDoubleClick"
    /\ before' = NoBefore

\* handleHeaderEditChange(event)
handleHeaderEditChange ==
    /\ HeaderInputRendered
    /\ \E raw \in InputsOf(columnMetadataMap[activeHeaderEditColumn.s].dataType) :
           headerEditValue' = raw
    /\ UNCHANGED <<columns, columnMetadataMap, originalData, workingData,
                   workingDataMap, visibleRowIds, hiddenRowIds, selectedRowIds,
                   hiddenRowCheckboxStates, editedCells, isLoading, searchTerm, activeHeaderEditColumn, hiddenRowCount,
                   virtualScrollEnabled, scrollListenerAdded, visibleStartIndex, visibleEndIndex,
                   searchDebounceTimer, timeouts, error, written>>
    /\ lastOp' = "handleHeaderEditChange"
    /\ Returns(<<>>)
    /\ before' = NoBefore

\* cancelHeaderEdit()
cancelHeaderEdit ==
    /\ activeHeaderEditColumn' = NullV
    /\ headerEditValue' = NullV

\* rowsToUpdate falling back to every working row when nothing is selected
RowsToUpdate_AllRows(visibleRows, selected) ==
    LET Chosen(row) == row.Id \in selected
    IN  IF Cardinality(selected) > 0
        THEN IdsOf(SelectSeq(visibleRows, Chosen))
        ELSE IdsOf(workingData)

\* rowsToUpdate that never narrows to the selection
RowsToUpdate_IgnoresSelection(visibleRows, selected) == IdsOf(visibleRows)

\* rowsToUpdate of applyHeaderEdit: the ids of the rows the edit is applied to
RowsToUpdate(visibleRows, selected) ==
    LET Chosen(row) == row.Id \in selected
    IN  IF Cardinality(selected) > 0
        THEN IdsOf(SelectSeq(visibleRows, Chosen))
        ELSE IdsOf(visibleRows)

\* applyHeaderEdit(fieldApi), fieldApi being NullV or StrV(field_api)
applyHeaderEdit(fieldApi) ==
    /\ IF ~Truthy(fieldApi) \/ headerEditValue.t \in {"null", "undefined"}
       THEN /\ cancelHeaderEdit
            /\ UNCHANGED <<workingData, editedCells, written>>
            /\ Returns(<<>>)
       ELSE IF fieldApi.s \notin DOMAIN columnMetadataMap
       THEN \* col is undefined and col.dataType is read
            /\ Raises
            /\ UNCHANGED <<workingData, editedCells, written,
                           activeHeaderEditColumn, headerEditValue>>
       ELSE LET col == columnMetadataMap[fieldApi.s]
                valueToApply == ConvertInput(col, headerEditValue)
                ids == RowsToUpdate(filteredRows, selectedRowIds)
                InScope(row) == row.Id \in ids
            IN  /\ workingData' = WriteRows(workingData, workingDataMap, ids,
                                            fieldApi.s, valueToApply)
                /\ editedCells' = MarkEdited(editedCells, workingDataMap, ids,
                                             fieldApi.s)
                /\ written' = written \cup
                       {<<id, fieldApi.s>> : id \in ids \cap DOMAIN workingDataMap}
                /\ Returns(DataChangedEvents(workingData, workingDataMap,
                                             SelectSeq(filteredRows, InScope),
                                             fieldApi.s, valueToApply))
                /\ cancelHeaderEdit
    /\ UNCHANGED <<columns, columnMetadataMap, originalData, workingDataMap,
                   visibleRowIds, hiddenRowIds, selectedRowIds,
                   hiddenRowCheckboxStates, isLoading,
                   searchTerm, hiddenRowCount, virtualScrollEnabled, scrollListenerAdded,
                   visibleStartIndex, visibleEndIndex, searchDebounceTimer, timeouts, error>>
    /\ before' = NoBefore

\* a header input is shown for the active column, which may be a column of an
\* earlier data set
HeaderInputShown == activeHeaderEditColumn.t = "str"

\* handleHeaderEditApply(event): the check button of the header input
handleHeaderEditApply ==
    /\ HeaderInputShown
    /\ applyHeaderEdit(activeHeaderEditColumn)
    /\ lastOp' = "applyHeaderEdit"

\* handleHeaderEditKeydown(event)
handleHeaderEditKeydown ==
    /\ HeaderInputShown
    /\ \E key \in {"Enter", "Escape"} :
         IF key = "Enter"
         THEN /\ applyHeaderEdit(activeHeaderEditColumn)
              /\ lastOp' = "applyHeaderEdit"
         ELSE /\ cancelHeaderEdit
              /\ UNCHANGED <<workingData, editedCells, written>>
              /\ lastOp' = "cancelHeaderEdit"
              /\ Returns(<<>>)
    /\ UNCHANGED <<columns, columnMetadataMap, originalData, workingDataMap,
                   visibleRowIds, hiddenRowIds, selectedRowIds,
                   hiddenRowCheckboxStates, isLoading,
                   searchTerm, hiddenRowCount, virtualScrollEnabled, scrollListenerAdded,
                   visibleStartIndex, visibleEndIndex, searchDebounceTimer, timeouts, error>>
    /\ before' = NoBefore

\* handleHeaderEditCancel()
handleHeaderEditCancel ==
    /\ HeaderInputShown
    /\ cancelHeaderEdit
    /\ Returns(<<>>)
    /\ UNCHANGED <<columns, columnMetadataMap, originalData, workingData,
                   workingDataMap, visibleRowIds, hiddenRowIds, selectedRowIds,
                   hiddenRowCheckboxStates, editedCells, isLoading, searchTerm, hiddenRowCount, virtualScrollEnabled, scrollListenerAdded,
                   visibleStartIndex, visibleEndIndex, searchDebounceTimer, timeouts, error,
                   written>>
    /\ lastOp' = "cancelHeaderEdit"
    /\ before' = NoBefore

\* handleToggleInlineEdit()
handleToggleInlineEdit ==
    /\ ~isLoading
    /\ IF Truthy(activeHeaderEditColumn)
       THEN cancelHeaderEdit
       ELSE UNCHANGED <<activeHeaderEditColumn, headerEditValue>>
    /\ UNCHANGED <<columns, columnMetadataMap, originalData, workingData,
                   workingDataMap, visibleRowIds, hiddenRowIds, selectedRowIds,
                   hiddenRowCheckboxStates, editedCells, isLoading, searchTerm,
                   hiddenRowCount, virtualScrollEnabled, scrollListenerAdded, visibleStartIndex,
                   visibleEndIndex, searchDebounceTimer, timeouts, error, written>>
    /\ lastOp' = "handleToggleInlineEdit"
    /\ Returns(<<>>)
    /\ before' = NoBefore

(***************************************************************************)
(* Selection.                                                              *)
(***************************************************************************)
\* handleSelectAll(event) going over every working row instead of filteredRows
handleSelectAll_AllRows ==
    /\ ~isLoading
    /\ \E isChecked \in BOOLEAN :
         selectedRowIds' = IF isChecked
                           THEN selectedRowIds \cup IdsOf(workingData)
                           ELSE selectedRowIds \ IdsOf(workingData)
    /\ UNCHANGED <<columns, columnMetadataMap, originalData, workingData,
                   workingDataMap, visibleRowIds, hiddenRowIds,
                   hiddenRowCheckboxStates, editedCells, isLoading, searchTerm, activeHeaderEditColumn,
                   headerEditValue, hiddenRowCount, virtualScrollEnabled, scrollListenerAdded,
                   visibleStartIndex, visibleEndIndex, searchDebounceTimer, timeouts, error,
                   written>>
    /\ lastOp' = "handleSelectAll"
    /\ Returns(<<RowsSelectedEvent(selectedRowIds')>>)
    /\ before' = NoBefore

\* handleSelectAll(event)
handleSelectAll ==
    /\ ~isLoading
    /\ \E isChecked \in BOOLEAN :
         selectedRowIds' = IF isChecked
                           THEN selectedRowIds \cup IdsOf(filteredRows)
                           ELSE selectedRowIds \ IdsOf(filteredRows)
    /\ UNCHANGED <<columns, columnMetadataMap, originalData, workingData,
                   workingDataMap, visibleRowIds, hiddenRowIds,
                   hiddenRowCheckboxStates, editedCells, isLoading, searchTerm, activeHeaderEditColumn,
                   headerEditValue, hiddenRowCount, virtualScrollEnabled, scrollListenerAdded,
                   visibleStartIndex, visibleEndIndex, searchDebounceTimer, timeouts, error,
                   written>>
    /\ lastOp' = "handleSelectAll"
    /\ Returns(<<RowsSelectedEvent(selectedRowIds')>>)
    /\ before' = NoBefore

\* handleRowSelect(event): the checkboxes exist for the displayed rows
handleRowSelect ==
    /\ \E rowId \in IdsOf(displayRows), isChecked \in BOOLEAN :
         selectedRowIds' = IF isChecked
                           THEN selectedRowIds \cup {rowId}
                           ELSE selectedRowIds \ {rowId}
    /\ UNCHANGED <<columns, columnMetadataMap, originalData, workingData,
                   workingDataMap, visibleRowIds, hiddenRowIds,
                   hiddenRowCheckboxStates, editedCells, isLoading, searchTerm, activeHeaderEditColumn,
                   headerEditValue, hiddenRowCount, virtualScrollEnabled, scrollListenerAdded,
                   visibleStartIndex, visibleEndIndex, searchDebounceTimer, timeouts, error,
                   written>>
    /\ lastOp' = "handleRowSelect"
    /\ Returns(<<RowsSelectedEvent(selectedRowIds')>>)
    /\ before' = NoBefore

(***************************************************************************)
(* Row-scoping.                                                            *)
(***************************************************************************)
\* hiddenRowCheckboxStates.set(id, flag) for every id of ids
SetStates(states, ids, flag) ==
    [id \in (DOMAIN states) \cup ids |-> IF id \in ids THEN flag ELSE states[id]]

\* handleHideSelected() without selectedRowIds.clear()
handleHideSelected_KeepsSelection ==
    /\ ~isLoading
    /\ IF Cardinality(selectedRowIds) = 0
       THEN UNCHANGED <<hiddenRowCheckboxStates, hiddenRowIds, visibleRowIds,
                        hiddenRowCount, selectedRowIds>>
       ELSE /\ hiddenRowCheckboxStates' =
                   SetStates(hiddenRowCheckboxStates, selectedRowIds, TRUE)
            /\ hiddenRowIds' = hiddenRowIds \cup selectedRowIds
            /\ visibleRowIds' = visibleRowIds \ selectedRowIds
            /\ hiddenRowCount' = Cardinality(hiddenRowIds')
            /\ selectedRowIds' = selectedRowIds
    /\ UNCHANGED <<columns, columnMetadataMap, originalData, workingData,
                   workingDataMap, editedCells, isLoading,
                   searchTerm, activeHeaderEditColumn, headerEditValue,
                   virtualScrollEnabled, scrollListenerAdded, visibleStartIndex, visibleEndIndex,
                   searchDebounceTimer, timeouts, error, written>>
    /\ lastOp' = "handleHideSelected"
    /\ Returns(<<>>)
    /\ before' = [op |-> "handleHideSelected", sel |-> selectedRowIds,
                  hid |-> hiddenRowIds, edits |-> written # {},
                  pending |-> {}, scroll |-> NoScroll]

\* handleHideSelected()
handleHideSelected ==
    /\ ~isLoading
    /\ IF Cardinality(selectedRowIds) = 0
       THEN UNCHANGED <<hiddenRowCheckboxStates, hiddenRowIds, visibleRowIds,
                        hiddenRowCount, selectedRowIds>>
       ELSE /\ hiddenRowCheckboxStates' =
                   SetStates(hiddenRowCheckboxStates, selectedRowIds, TRUE)
            /\ hiddenRowIds' = hiddenRowIds \cup selectedRowIds
            /\ visibleRowIds' = visibleRowIds \ selectedRowIds
            /\ hiddenRowCount' = Cardinality(hiddenRowIds')
            /\ selectedRowIds' = {}
    /\ UNCHANGED <<columns, columnMetadataMap, originalData, workingData,
                   workingDataMap, editedCells, isLoading,
                   searchTerm, activeHeaderEditColumn, headerEditValue,
                   virtualScrollEnabled, scrollListenerAdded, visibleStartIndex, visibleEndIndex,
                   searchDebounceTimer, timeouts, error, written>>
    /\ lastOp' = "handleHideSelected"
    /\ Returns(<<>>)
    /\ before' = [op |-> "handleHideSelected", sel |-> selectedRowIds,
                  hid |-> hiddenRowIds, edits |-> written # {},
                  pending |-> {}, scroll |-> NoScroll]

\* handleHideUnselected() going over the rows of filteredRows instead of
\* visibleRowIds
handleHideUnselected_FilteredOnly ==
    /\ ~isLoading
    /\ LET rowsToHide == {rowId \in IdsOf(filteredRows) : rowId \notin selectedRowIds}
       IN  /\ hiddenRowCheckboxStates' =
                  SetStates(SetStates(hiddenRowCheckboxStates, rowsToHide, FALSE),
                            selectedRowIds, TRUE)
           /\ hiddenRowIds' = hiddenRowIds \cup rowsToHide
           /\ visibleRowIds' = visibleRowIds \ rowsToHide
    /\ hiddenRowCount' = Cardinality(hiddenRowIds')
    /\ selectedRowIds' = {}
    /\ UNCHANGED <<columns, columnMetadataMap, originalData, workingData,
                   workingDataMap, editedCells, isLoading,
                   searchTerm, activeHeaderEditColumn, headerEditValue,
                   virtualScrollEnabled, scrollListenerAdded, visibleStartIndex, visibleEndIndex,
                   searchDebounceTimer, timeouts, error, written>>
    /\ lastOp' = "handleHideUnselected"
    /\ Returns(<<>>)
    /\ before' = [op |-> "handleHideUnselected", sel |-> selectedRowIds,
                  hid |-> hiddenRowIds, edits |-> written # {},
                  pending |-> {}, scroll |-> NoScroll]

\* handleHideUnselected() setting the flag of every hidden row, the rows hidden
\* earlier included
handleHideUnselected_ReflagsHidden ==
    /\ ~isLoading
    /\ LET rowsToHide == {rowId \in visibleRowIds : rowId \notin selectedRowIds}
       IN  /\ hiddenRowCheckboxStates' =
                  SetStates(SetStates(hiddenRowCheckboxStates,
                                      hiddenRowIds \cup rowsToHide, FALSE),
                            selectedRowIds, TRUE)
           /\ hiddenRowIds' = hiddenRowIds \cup rowsToHide
           /\ visibleRowIds' = visibleRowIds \ rowsToHide
    /\ hiddenRowCount' = Cardinality(hiddenRowIds')
    /\ selectedRowIds' = {}
    /\ UNCHANGED <<columns, columnMetadataMap, originalData, workingData,
                   workingDataMap, editedCells, isLoading,
                   searchTerm, activeHeaderEditColumn, headerEditValue,
                   virtualScrollEnabled, scrollListenerAdded, visibleStartIndex, visibleEndIndex,
                   searchDebounceTimer, timeouts, error, written>>
    /\ lastOp' = "handleHideUnselected"
    /\ Returns(<<>>)
    /\ before' = [op |-> "handleHideUnselected", sel |-> selectedRowIds,
                  hid |-> hiddenRowIds, edits |-> written # {},
                  pending |-> {}, scroll |-> NoScroll]

\* handleHideUnselected()
handleHideUnselected ==
    /\ ~isLoading
    /\ LET rowsToHide == {rowId \in visibleRowIds : rowId \notin selectedRowIds}
       IN  /\ hiddenRowCheckboxStates' =
                  SetStates(SetStates(hiddenRowCheckboxStates, rowsToHide, FALSE),
                            selectedRowIds, TRUE)
           /\ hiddenRowIds' = hiddenRowIds \cup rowsToHide
           /\ visibleRowIds' = visibleRowIds \ rowsToHide
    /\ hiddenRowCount' = Cardinality(hiddenRowIds')
    /\ selectedRowIds' = {}
    /\ UNCHANGED <<columns, columnMetadataMap, originalData, workingData,
                   workingDataMap, editedCells, isLoading,
                   searchTerm, activeHeaderEditColumn, headerEditValue,
                   virtualScrollEnabled, scrollListenerAdded, visibleStartIndex, visibleEndIndex,
                   searchDebounceTimer, timeouts, error, written>>
    /\ lastOp' = "handleHideUnselected"
    /\ Returns(<<>>)
    /\ before' = [op |-> "handleHideUnselected", sel |-> selectedRowIds,
                  hid |-> hiddenRowIds, edits |-> written # {},
                  pending |-> {}, scroll |-> NoScroll]

\* handleUnhideAll restoring no checkbox
Reselected_None(hidden, states) == {}

\* the rows handleUnhideAll reselects: the hidden ones memorised as selected
Reselected(hidden, states) ==
    {rowId \in hidden : rowId \in DOMAIN states /\ states[rowId]}

\* handleUnhideAll() forgetting to make the hidden rows visible again
handleUnhideAll_LosesRows ==
    /\ ~isLoading
    /\ visibleRowIds' = visibleRowIds
    /\ selectedRowIds' =
           selectedRowIds \cup Reselected(hiddenRowIds, hiddenRowCheckboxStates)
    /\ hiddenRowIds' = {}
    /\ hiddenRowCheckboxStates' = EmptyMap
    /\ hiddenRowCount' = 0
    /\ searchTerm' = <<>>
    /\ UNCHANGED <<columns, columnMetadataMap, originalData, workingData,
                   workingDataMap, editedCells, isLoading,
                   activeHeaderEditColumn, headerEditValue, virtualScrollEnabled, scrollListenerAdded,
                   visibleStartIndex, visibleEndIndex, searchDebounceTimer, timeouts, error,
                   written>>
    /\ lastOp' = "handleUnhideAll"
    /\ Returns(<<>>)
    /\ before' = IF lastOp \in {"handleHideSelected", "handleHideUnselected"}
                 THEN before ELSE NoBefore

\* handleUnhideAll()
handleUnhideAll ==
    /\ ~isLoading
    /\ visibleRowIds' = visibleRowIds \cup hiddenRowIds
    /\ selectedRowIds' =
           selectedRowIds \cup Reselected(hiddenRowIds, hiddenRowCheckboxStates)
    /\ hiddenRowIds' = {}
    /\ hiddenRowCheckboxStates' = EmptyMap
    /\ hiddenRowCount' = 0
    /\ searchTerm' = <<>>
    /\ UNCHANGED <<columns, columnMetadataMap, originalData, workingData,
                   workingDataMap, editedCells, isLoading,
                   activeHeaderEditColumn, headerEditValue, virtualScrollEnabled, scrollListenerAdded,
                   visibleStartIndex, visibleEndIndex, searchDebounceTimer, timeouts, error,
                   written>>
    /\ lastOp' = "handleUnhideAll"
    /\ Returns(<<>>)
    /\ before' = IF lastOp \in {"handleHideSelected", "handleHideUnselected"}
                 THEN before ELSE NoBefore

(***************************************************************************)
(* Search.                                                                 *)
(***************************************************************************)
\* clearTimeout(id)
clearTimeout(table, id) == {t \in table : t.id # id}

\* handleSearchInput cancelling nothing
Cancelled_Nothing(table, handle) == table

\* the pending commits handleSearchInput leaves:
\* if (this._searchDebounceTimer) clearTimeout(this._searchDebounceTimer)
Cancelled(table, handle) ==
    IF handle # NoTimer THEN clearTimeout(table, handle) ELSE table

\* the id setTimeout returns: one that no pending timeout has (the least)
FreshTimerId(table) ==
    CHOOSE n \in 1..(Cardinality(table) + 1) :
        /\ \A t \in table : t.id # n
        /\ \A m \in 1..(n - 1) : \E t \in table : t.id = m

\* handleSearchInput(event): cancels the pending commit and schedules one
handleSearchInput ==
    /\ ~isLoading
    /\ \E value \in SearchInputs :
         LET kept == Cancelled(timeouts, searchDebounceTimer)
             id == FreshTimerId(kept)
         IN  /\ timeouts' = kept \cup {[id |-> id, value |-> value]}
             /\ searchDebounceTimer' = id
             /\ typed' = StrV(value)
    /\ UNCHANGED <<columns, columnMetadataMap, originalData, workingData,
                   workingDataMap, visibleRowIds, hiddenRowIds, selectedRowIds,
                   hiddenRowCheckboxStates, editedCells, isLoading, searchTerm, activeHeaderEditColumn,
                   headerEditValue, hiddenRowCount, virtualScrollEnabled, scrollListenerAdded,
                   visibleStartIndex, visibleEndIndex, error, written>>
    /\ lastOp' = "handleSearchInput"
    /\ thrown' = FALSE
    /\ dispatched' = <<>>
    /\ before' = [NoBefore EXCEPT !.op = "handleSearchInput",
                                  !.pending = timeouts]

\* the callback of handleSearchInput leaving the virtual window where it is
searchDebounceCallback_KeepsWindow ==
    /\ \E t \in timeouts :
         /\ searchTerm' = t.value
         /\ timeouts' = timeouts \ {t}
         /\ searchDebounceTimer' =
                IF searchDebounceTimer = t.id THEN NoTimer ELSE searchDebounceTimer
    /\ UNCHANGED <<visibleStartIndex, visibleEndIndex>>
    /\ UNCHANGED <<columns, columnMetadataMap, originalData, workingData,
                   workingDataMap, visibleRowIds, hiddenRowIds, selectedRowIds,
                   hiddenRowCheckboxStates, editedCells, isLoading, activeHeaderEditColumn, headerEditValue,
                   hiddenRowCount, virtualScrollEnabled, scrollListenerAdded, error, written>>
    /\ lastOp' = "searchDebounceCallback"
    /\ Returns(<<>>)
    /\ before' = [NoBefore EXCEPT
                     !.op = "searchDebounceCallback",
                     !.scroll = [scrollTop |-> 0, clientHeight |-> 0,
                                 startIndex |-> visibleStartIndex,
                                 endIndex |-> visibleEndIndex]]

\* the callback handleSearchInput schedules, run by the timer after
\* SEARCH_DEBOUNCE_MS unless it was cancelled
searchDebounceCallback ==
    /\ \E t \in timeouts :
         /\ searchTerm' = t.value
         /\ timeouts' = timeouts \ {t}
         /\ searchDebounceTimer' =
                IF searchDebounceTimer = t.id THEN NoTimer ELSE searchDebounceTimer
    /\ IF virtualScrollEnabled
       THEN /\ visibleStartIndex' = 0
            /\ visibleEndIndex' =
                   Min(50 + VIRTUAL_SCROLL_BUFFER,
                       Len(FilteredRowsOf(workingData, visibleRowIds,
                                          searchTerm', columns)))
       ELSE UNCHANGED <<visibleStartIndex, visibleEndIndex>>
    /\ UNCHANGED <<columns, columnMetadataMap, originalData, workingData,
                   workingDataMap, visibleRowIds, hiddenRowIds, selectedRowIds,
                   hiddenRowCheckboxStates, editedCells, isLoading, activeHeaderEditColumn, headerEditValue,
                   hiddenRowCount, virtualScrollEnabled, scrollListenerAdded, error, written>>
    /\ lastOp' = "searchDebounceCallback"
    /\ Returns(<<>>)
    /\ before' = [NoBefore EXCEPT
                     !.op = "searchDebounceCallback",
                     !.scroll = [scrollTop |-> 0, clientHeight |-> 0,
                                 startIndex |-> visibleStartIndex,
                                 endIndex |-> visibleEndIndex]]

\* handleClearSearch() clearing the selection as well
handleClearSearch_ClearsSelection ==
    /\ ~isLoading
    /\ searchTerm' = <<>>
    /\ IF virtualScrollEnabled
       THEN /\ visibleStartIndex' = 0
            /\ visibleEndIndex' =
                   Min(50 + VIRTUAL_SCROLL_BUFFER,
                       Len(FilteredRowsOf(workingData, visibleRowIds,
                                          searchTerm', columns)))
       ELSE UNCHANGED <<visibleStartIndex, visibleEndIndex>>
    /\ selectedRowIds' = {}
    /\ UNCHANGED <<columns, columnMetadataMap, originalData, workingData,
                   workingDataMap, visibleRowIds, hiddenRowIds,
                   hiddenRowCheckboxStates, editedCells, isLoading, activeHeaderEditColumn, headerEditValue,
                   hiddenRowCount, virtualScrollEnabled, scrollListenerAdded, searchDebounceTimer, timeouts, error,
                   written>>
    /\ lastOp' = "handleClearSearch"
    /\ Returns(<<>>)
    /\ before' = NoBefore

\* handleClearSearch()
handleClearSearch ==
    /\ ~isLoading
    /\ searchTerm' = <<>>
    /\ IF virtualScrollEnabled
       THEN /\ visibleStartIndex' = 0
            /\ visibleEndIndex' =
                   Min(50 + VIRTUAL_SCROLL_BUFFER,
                       Len(FilteredRowsOf(workingData, visibleRowIds,
                                          searchTerm', columns)))
       ELSE UNCHANGED <<visibleStartIndex, visibleEndIndex>>
    /\ UNCHANGED <<columns, columnMetadataMap, originalData, workingData,
                   workingDataMap, visibleRowIds, hiddenRowIds, selectedRowIds,
                   hiddenRowCheckboxStates, editedCells, isLoading, activeHeaderEditColumn, headerEditValue,
                   hiddenRowCount, virtualScrollEnabled, scrollListenerAdded, searchDebounceTimer, timeouts, error,
                   written>>
    /\ lastOp' = "handleClearSearch"
    /\ Returns(<<>>)
    /\ before' = NoBefore

(***************************************************************************)
(* Virtual window.                                                         *)
(***************************************************************************)
\* Math.ceil(a / b) for a >= 0, b > 0
CeilDiv(a, b) == (a + b - 1) \div b

\* the window computed without the buffer before the first visible row
ScrollRange_NoBuffer(scrollTop, containerHeight, total) ==
    LET startIndex == Max(0, scrollTop \div ROW_HEIGHT)
        visibleCount == CeilDiv(containerHeight, ROW_HEIGHT)
    IN  [startIndex |-> startIndex,
         endIndex |-> Min(total, startIndex + visibleCount
                                   + (VIRTUAL_SCROLL_BUFFER * 2))]

\* the window handleTableScroll computes from the scroll position, the height
\* of the container and the number of filtered rows
ScrollRange(scrollTop, containerHeight, total) ==
    LET startIndex == Max(0, (scrollTop \div ROW_HEIGHT) - VIRTUAL_SCROLL_BUFFER)
        visibleCount == CeilDiv(containerHeight, ROW_HEIGHT)
    IN  [startIndex |-> startIndex,
         endIndex |-> Min(total, startIndex + visibleCount
                                   + (VIRTUAL_SCROLL_BUFFER * 2))]

\* handleTableScroll(event): renderedCallback adds it as the scroll listener
\* of the container once virtual scrolling is enabled, and never removes it
handleTableScroll ==
    /\ scrollListenerAdded
    /\ \E e \in ScrollInputs :
         /\ IF ~virtualScrollEnabled
            THEN UNCHANGED <<visibleStartIndex, visibleEndIndex>>
            ELSE LET range == ScrollRange(e.scrollTop, e.clientHeight,
                                          Len(filteredRows))
                 IN  IF \/ range.startIndex # visibleStartIndex
                        \/ range.endIndex # visibleEndIndex
                     THEN /\ visibleStartIndex' = range.startIndex
                          /\ visibleEndIndex' = range.endIndex
                     ELSE UNCHANGED <<visibleStartIndex, visibleEndIndex>>
         /\ before' = [NoBefore EXCEPT
                          !.op = "handleTableScroll",
                          !.scroll = [scrollTop |-> e.scrollTop,
                                      clientHeight |-> e.clientHeight,
                                      startIndex |-> visibleStartIndex,
                                      endIndex |-> visibleEndIndex]]
    /\ UNCHANGED <<columns, columnMetadataMap, originalData, workingData,
                   workingDataMap, visibleRowIds, hiddenRowIds, selectedRowIds,
                   hiddenRowCheckboxStates, editedCells, isLoading, searchTerm,
                   activeHeaderEditColumn, headerEditValue, hiddenRowCount,
                   virtualScrollEnabled, scrollListenerAdded, searchDebounceTimer, timeouts, error,
                   written>>
    /\ lastOp' = "handleTableScroll"
    /\ Returns(<<>>)

(***************************************************************************)
(* A caller of the public API mutating what a getter returned.             *)
(***************************************************************************)
\* getOriginalData() handing out the component's own array
OriginalSnapshot_Live == [fresh |-> FALSE, rows |-> originalData]

\* what getOriginalData() hands out: fresh tells whether the rows are a copy
\* or the component's own array
OriginalSnapshot == [fresh |-> TRUE, rows |-> getOriginalData]

\* what getWorkingData() hands out
WorkingSnapshot == [fresh |-> TRUE, rows |-> getWorkingData]

\* the caller assigns a value to a field of a row of the returned array; the
\* component's array changes only when the returned array is not a copy
callerMutatesSnapshot ==
    /\ ~isLoading
    /\ \E which \in {"original", "working"} :
         LET snap == IF which = "original" THEN OriginalSnapshot
                     ELSE WorkingSnapshot
         IN  \E i \in 1..Len(snap.rows), k \in 1..Len(columns) :
               LET mutated == [snap.rows EXCEPT
                                 ![i] = SetField(@, columns[k].field_api,
                                                 StrV(<<"z">>))]
               IN  /\ originalData' =
                          IF which = "original" /\ ~snap.fresh
                          THEN mutated ELSE originalData
                   /\ workingData' =
                          IF which = "working" /\ ~snap.fresh
                          THEN mutated ELSE workingData
    /\ UNCHANGED <<columns, columnMetadataMap, workingDataMap, visibleRowIds,
                   hiddenRowIds, selectedRowIds, hiddenRowCheckboxStates,
                   editedCells, isLoading, searchTerm, activeHeaderEditColumn,
                   headerEditValue, hiddenRowCount, virtualScrollEnabled, scrollListenerAdded,
                   visibleStartIndex, visibleEndIndex, searchDebounceTimer,
                   timeouts, error, lastOp, written, before, thrown,
                   dispatched, typed>>

(***************************************************************************)
(* Next-state relation.                                                    *)
(***************************************************************************)
Next ==
    \/ initializeMockData
    \/ setTableData
    \/ resetToOriginal
    \/ handleCellChange
    \/ handleHeaderDoubleClick
    \/ handleHeaderEditChange
    \/ handleHeaderEditApply
    \/ handleHeaderEditKeydown
    \/ handleHeaderEditCancel
    \/ handleToggleInlineEdit
    \/ handleSelectAll
    \/ handleRowSelect
    \/ handleHideSelected
    \/ handleHideUnselected
    \/ handleUnhideAll
    \/ handleSearchInput
    \/ searchDebounceCallback
    \/ handleClearSearch
    \/ callerMutatesSnapshot

Spec == Init /\ [][Next]_vars

\* the handlers of the virtual window and of what changes the number of
\* filtered rows, with a host that also loads a large data set
NextWindow ==
    \/ initializeMockData
    \/ setTableData
    \/ setLargeTableData
    \/ resetToOriginal
    \/ handleTableScroll
    \/ handleHideUnselected
    \/ handleUnhideAll
    \/ handleSearchInput
    \/ searchDebounceCallback
    \/ handleClearSearch

WindowSpec == Init /\ [][NextWindow]_vars

\* WindowSpec with the timer's guarantee: a commit that stays pending is run
WindowLiveSpec == Init /\ [][NextWindow]_vars /\ WF_vars(searchDebounceCallback)

(***************************************************************************)
(* Properties.                                                             *)
(***************************************************************************)
\* the indices of the working rows a step changed
ChangedRows == {i \in 1..Len(workingData) : workingData'[i] # workingData[i]}

\* the step is a confirmed header bulk edit (the draft is applied)
BulkEditStep ==
    /\ lastOp' = "applyHeaderEdit"
    /\ Truthy(activeHeaderEditColumn)
    /\ headerEditValue.t \notin {"null", "undefined"}

\* C1: a confirmed header bulk edit changes no field value of a row whose id is
\* in hiddenRowIds and adds no ledger key of such a row, whatever is selected:
\* the rows it writes are all in visibleRowIds.
C1_BulkEditSparesHiddenRows ==
    [][BulkEditStep =>
        /\ \A i \in 1..Len(workingData) :
              workingData[i].Id \in hiddenRowIds => workingData'[i] = workingData[i]
        /\ \A id \in hiddenRowIds, f \in FieldsOf(columns) :
              CellKey(id, f) \in editedCells' => CellKey(id, f) \in editedCells
        /\ \A i \in ChangedRows : workingData[i].Id \in visibleRowIds
        /\ \A w \in written' \ written : w[1] \in visibleRowIds]_vars

\* C1 witness: a bulk edit has just written the empty draft to a visible row
\* while another row is hidden and still holds its original values.
C1_Witness ==
    /\ lastOp = "applyHeaderEdit"
    /\ hiddenRowIds # {}
    /\ \E i \in 1..Len(workingData) :
          /\ workingData[i].Id \in visibleRowIds
          /\ GetField(workingData[i], NameField) = StrV(<<>>)
    /\ \E j \in 1..Len(workingData) :
          /\ workingData[j].Id \in hiddenRowIds
          /\ workingData[j] = originalData[j]

\* the scope of a bulk edit, as the claim defines it
ScopeOfClaim ==
    IF selectedRowIds # {}
    THEN IdsOf(filteredRows) \cap selectedRowIds
    ELSE IdsOf(filteredRows)

\* C2: a confirmed header bulk edit on field F with converted value v writes
\* F = v to exactly the rows of scope (filteredRows /\ selectedRowIds when
\* something is selected, all of filteredRows otherwise); every other row
\* keeps all its field values.
C2_BulkEditWritesExactlyScope ==
    [][BulkEditStep /\ activeHeaderEditColumn.s \in DOMAIN columnMetadataMap =>
        LET F == activeHeaderEditColumn.s
            v == ConvertInput(columnMetadataMap[F], headerEditValue)
        IN  \A i \in 1..Len(workingData) :
               workingData'[i] =
                   IF workingData[i].Id \in ScopeOfClaim
                   THEN SetField(workingData[i], F, v)
                   ELSE workingData[i]]_vars

\* C2 witness: after a bulk edit of the empty draft with one row selected,
\* the selected row holds it and a visible unselected row is unchanged.
C2_Witness ==
    /\ lastOp = "applyHeaderEdit"
    /\ selectedRowIds # {}
    /\ \E i, j \in 1..Len(workingData) :
          /\ workingData[i].Id \in selectedRowIds \cap visibleRowIds
          /\ GetField(workingData[i], NameField) = StrV(<<>>)
          /\ workingData[j].Id \in visibleRowIds \ selectedRowIds
          /\ workingData[j] = originalData[j]
          /\ workingData[j] \in {filteredRows[k] : k \in 1..Len(filteredRows)}

\* search terms tried against every reachable state
ProbeTerms == {<<>>, <<"x">>, <<"X">>, <<"y">>, <<"7">>, <<"5">>}

\* C3: for every search term, no row whose id is in hiddenRowIds appears in
\* filteredRows (nor in displayRows), even when a value of the row contains
\* the term.
C3_HiddenRowsNeverFiltered ==
    /\ \A t \in ProbeTerms \cup {searchTerm} :
          IdsOf(FilteredRowsOf(workingData, visibleRowIds, t, columns))
              \cap hiddenRowIds = {}
    /\ IdsOf(filteredRows) \cap hiddenRowIds = {}
    /\ IdsOf(displayRows) \cap hiddenRowIds = {}

\* C3 witness: a search term is committed, a hidden row matches it and is
\* absent from the filtered rows, which are not empty.
C3_Witness ==
    /\ searchTerm # <<>>
    /\ filteredRows # <<>>
    /\ \E i \in 1..Len(workingData) :
          /\ workingData[i].Id \in hiddenRowIds
          /\ RowMatches(workingData[i], columns, searchTerm)
          /\ workingData[i].Id \notin IdsOf(filteredRows)

\* the step is a Hide Selected with a non-empty selection
HideSelectedStep == lastOp' = "handleHideSelected" /\ selectedRowIds # {}

\* the step is the Unhide All that directly follows such a Hide Selected
UnhideAfterHideSelected ==
    /\ lastOp = "handleHideSelected"
    /\ before.sel # {}
    /\ lastOp' = "handleUnhideAll"
    /\ Returns(<<>>)

\* C4, as claimed: Hide Selected moves every id of the selection S into the
\* hidden set with memorised flag true, and a following Unhide All leaves
\* selectedRowIds = S and hiddenRowIds empty.
C4_AsClaimed ==
    [][/\ HideSelectedStep =>
            /\ selectedRowIds \subseteq hiddenRowIds'
            /\ \A id \in selectedRowIds : hiddenRowCheckboxStates'[id]
       /\ UnhideAfterHideSelected =>
            /\ selectedRowIds' = before.sel
            /\ hiddenRowIds' = {}]_vars

\* C4, amended: Hide Selected moves every id of S into the hidden set with
\* memorised flag true, and a following Unhide All makes every id of S
\* visible and selected again and empties hiddenRowIds; selectedRowIds is then
\* S together with the rows hidden earlier whose memorised flag is true, so
\* it equals S when no row was hidden before the Hide Selected.
C4_RoundTripRestoresSelection ==
    [][/\ HideSelectedStep =>
            /\ selectedRowIds \subseteq hiddenRowIds'
            /\ selectedRowIds \cap visibleRowIds' = {}
            /\ \A id \in selectedRowIds : hiddenRowCheckboxStates'[id]
       /\ UnhideAfterHideSelected =>
            /\ before.sel \subseteq selectedRowIds'
            /\ before.sel \subseteq visibleRowIds'
            /\ hiddenRowIds' = {}
            /\ selectedRowIds' =
                   before.sel \cup
                   {id \in before.hid : hiddenRowCheckboxStates[id]}
            /\ before.hid = {} => selectedRowIds' = before.sel]_vars

\* C4 witness: Unhide All has just followed a Hide Selected of a non-empty
\* selection, which is selected and visible again.
C4_Witness ==
    /\ lastOp = "handleUnhideAll"
    /\ before.op = "handleHideSelected"
    /\ before.sel # {}
    /\ selectedRowIds = before.sel
    /\ before.sel \subseteq visibleRowIds
    /\ hiddenRowIds = {}

\* C5, as claimed: after Hide Unselected directly followed by Unhide All,
\* selectedRowIds is the selection held just before Hide Unselected.
C5_AsClaimed ==
    [][lastOp = "handleHideUnselected" /\ lastOp' = "handleUnhideAll" =>
          selectedRowIds' = before.sel]_vars

\* C6: after resetToOriginal(), whatever edits came before, getWorkingData()
\* equals getOriginalData() and editedCells is empty; a second
\* resetToOriginal() right after changes nothing.
C6_ResetRestoresOriginal ==
    [][lastOp' = "resetToOriginal" =>
          /\ getWorkingData' = getOriginalData'
          /\ getEditedCellKeys' = {}
          /\ lastOp = "resetToOriginal" => UNCHANGED engineVars]_vars

\* C6 witness: resetToOriginal() has just run on a state that held edits.
C6_Witness ==
    /\ lastOp = "resetToOriginal"
    /\ before.op = "resetToOriginal"
    /\ before.edits
    /\ getWorkingData = getOriginalData
    /\ editedCells = {}

\* C7: getEditedCellKeys() is exactly the set of keys rowId_fieldId of the
\* cells written, by a cell edit or a bulk edit, since the most recent load or
\* resetToOriginal.
C7_LedgerIsKeysOfWrittenCells ==
    getEditedCellKeys = {CellKey(w[1], w[2]) : w \in written}

\* C7 witness: two cells of one row have been written, by a cell edit last,
\* and the ledger holds their two keys.
C7_Witness ==
    /\ lastOp = "handleCellChange"
    /\ \E i \in 1..Len(workingData) :
          /\ written = {<<workingData[i].Id, NameField>>,
                        <<workingData[i].Id, AmountField>>}
          /\ getEditedCellKeys = {CellKey(workingData[i].Id, NameField),
                                  CellKey(workingData[i].Id, AmountField)}

\* the cell (row i, field f) is in the ledger
IsDirty(i, f) == CellKey(workingData[i].Id, f) \in editedCells

\* the working value of the cell differs from its original value
Differs(i, f) == GetField(workingData[i], f) # GetField(originalData[i], f)

\* C8, as claimed: a cell is in the ledger if and only if its working value
\* differs from its original value.
C8_AsClaimed ==
    \A i \in 1..Len(workingData), f \in FieldsOf(columns) :
        IsDirty(i, f) <=> Differs(i, f)

\* C8, amended: a cell whose working value differs from its original value is
\* in the ledger; the converse does not hold, a cell written with a value
\* equal to its original value stays marked dirty.
C8_ChangedCellsAreDirty ==
    \A i \in 1..Len(workingData), f \in FieldsOf(columns) :
        Differs(i, f) => IsDirty(i, f)

\* C8 witness: after a write one cell differs from its original and is dirty,
\* and another is dirty although it holds its original value.
C8_Witness ==
    /\ lastOp \in {"handleCellChange", "applyHeaderEdit"}
    /\ \E i, j \in 1..Len(workingData), f \in FieldsOf(columns) :
          /\ Differs(i, f) /\ IsDirty(i, f)
          /\ ~Differs(j, f) /\ IsDirty(j, f)

\* C9, as claimed: getModifiedRows() returns the snapshots of exactly the
\* working rows that have a dirty cell, the row component recovered from each
\* ledger key being the row id that was written.
C9_AsClaimed ==
    /\ EditedRowIds = {w[1] : w \in written}
    /\ getModifiedRows =
           {JsonCopy(<<workingData[i]>>)[1] :
               i \in {k \in 1..Len(workingData) :
                         \E f \in FieldsOf(columns) : IsDirty(k, f)}}

\* the step is a load
LoadStep == initializeMockData \/ setTableData

LoadOfMissingId ==
    /\ lastOp' = "setTableData"
    /\ processTableData(MissingIdData)

\* C11, as claimed: a load of a data set in which a row lacks the identifier
\* field is rejected with a reported error and leaves columns, originalData,
\* workingData, the row index, visibleRowIds, hiddenRowIds, selectedRowIds
\* and editedCells as they were.
C11_AsClaimed ==
    [][LoadOfMissingId =>
          /\ error' # NullV
          /\ UNCHANGED <<columns, originalData, workingData, workingDataMap,
                         visibleRowIds, hiddenRowIds, selectedRowIds,
                         editedCells>>]_vars

\* the step is a write entry point that was given a field id or a row id the
\* engine does not know: a header edit started or confirmed on a field that
\* is no column, or a cell edit that raised (unknown field) or found no row
\* (unknown row id)
WriteWithUnknownId ==
    \/ /\ lastOp' = "handleHeaderDoubleClick"
       /\ activeHeaderEditColumn'.s \notin DOMAIN columnMetadataMap
    \/ /\ BulkEditStep
       /\ activeHeaderEditColumn.s \notin DOMAIN columnMetadataMap
    \/ /\ lastOp' = "handleCellChange"
       /\ thrown' \/ dispatched' = <<>>

\* C12, as claimed: a write entry point given a row id or a field id unknown
\* to the engine raises no error, leaves workingData and editedCells
\* unchanged and emits no datachanged event.
C12_AsClaimed ==
    [][WriteWithUnknownId =>
          /\ ~thrown'
          /\ UNCHANGED <<workingData, editedCells>>
          /\ dispatched' = <<>>]_vars

\* the window of the claim for scroll offset s, viewport height h and n
\* filtered rows: floor and ceiling by integer division
ClaimedRange(s, h, n) ==
    LET start == Max(0, (s \div 32) - 20)
    IN  <<start, Min(n, start + (0 - ((0 - h) \div 32)) + 40)>>

\* the step is a scroll event
ScrollStep == lastOp' = "handleTableScroll"

\* C13, as claimed: a scroll event with offset s and viewport height h, N
\* being the number of filtered rows, sets visibleStartIndex =
\* max(0, floor(s/32) - 20) and visibleEndIndex =
\* min(N, startIndex + ceil(h/32) + 40), whether or not virtual scrolling is
\* enabled.
C13_AsClaimed ==
    [][ScrollStep =>
          LET e == before'.scroll
              range == ClaimedRange(e.scrollTop, e.clientHeight, Len(filteredRows))
          IN  /\ visibleStartIndex' = range[1]
              /\ visibleEndIndex' = range[2]]_vars

\* C13, amended: while virtual scrolling is enabled, a scroll event with
\* offset s and viewport height h, N being the number of filtered rows, sets
\* visibleStartIndex = max(0, floor(s/32) - 20) and visibleEndIndex =
\* min(N, startIndex + ceil(h/32) + 40); N = 1000, s = 3200, h = 640 give 80
\* and 140; when the computed range equals the current one nothing changes;
\* while virtual scrolling is disabled a scroll event changes nothing.
C13_ScrollSetsWindow ==
    [][ScrollStep =>
          LET e == before'.scroll
              range == ClaimedRange(e.scrollTop, e.clientHeight, Len(filteredRows))
          IN  /\ virtualScrollEnabled =>
                    /\ visibleStartIndex' = range[1]
                    /\ visibleEndIndex' = range[2]
                    /\ <<visibleStartIndex, visibleEndIndex>> = range =>
                           UNCHANGED engineVars
              /\ ~virtualScrollEnabled => UNCHANGED engineVars
              /\ ScrollRange(3200, 640, 1000) =
                     [startIndex |-> 80, endIndex |-> 140]]_vars

\* C13 witness: with more than 140 filtered rows, a scroll to offset 3200 in a
\* viewport of 640 has just moved the window from [0, 70) to [80, 140).
C13_Witness ==
    /\ lastOp = "handleTableScroll"
    /\ virtualScrollEnabled
    /\ before.scroll = [scrollTop |-> 3200, clientHeight |-> 640,
                        startIndex |-> 0, endIndex |-> 70]
    /\ Len(filteredRows) > 140
    /\ visibleStartIndex = 80
    /\ visibleEndIndex = 140

\* C14, as claimed: whenever virtual scrolling is enabled,
\* 0 <= visibleStartIndex <= visibleEndIndex <= filteredRows.length, and the
\* top and bottom paddings are not negative.
C14_AsClaimed ==
    virtualScrollEnabled =>
        /\ 0 <= visibleStartIndex
        /\ visibleStartIndex <= visibleEndIndex
        /\ visibleEndIndex <= Len(filteredRows)
        /\ virtualScrollTopPadding >= 0
        /\ virtualScrollBottomPadding >= 0

\* C15, as claimed: whenever filteredRows has at most 500 rows, displayRows
\* holds every row of filteredRows.
C15_AsClaimed ==
    Len(filteredRows) <= 500 => displayRows = filteredRows

\* the field of the header edit is invalid: there is none, or it is no column
\* of the loaded data
InvalidField ==
    \/ ~Truthy(activeHeaderEditColumn)
    \/ activeHeaderEditColumn.s \notin DOMAIN columnMetadataMap

\* the step cancels a header edit: Escape or the cancel button, a toggle of
\* the inline-edit mode, or a confirmation with an invalid field
CancelStep ==
    \/ lastOp' = "cancelHeaderEdit"
    \/ lastOp' = "handleToggleInlineEdit"
    \/ lastOp' = "applyHeaderEdit" /\ InvalidField

\* C16, as claimed: cancelling a header edit (Escape, the cancel action, a
\* toggle of the inline-edit mode, a confirmation with an invalid field)
\* discards the draft, changes no value of workingData, adds no key to
\* editedCells, emits no datachanged event and leaves no header edit active.
C16_AsClaimed ==
    [][CancelStep =>
          /\ headerEditValue' = NullV
          /\ activeHeaderEditColumn' = NullV
          /\ workingData' = workingData
          /\ editedCells' = editedCells
          /\ dispatched' = <<>>
          /\ ~thrown']_vars

\* the number of leading decimal digits of a string
LeadingDigits(s) ==
    CHOOSE k \in 0..Len(s) :
        /\ \A i \in 1..k : IsDigit(s[i])
        /\ k = Len(s) \/ ~IsDigit(s[k + 1])

\* what the claim stores for a raw input of a number column: the number its
\* leading digits write, 0 when it has none (the empty draft included)
ExpectedNumber(raw) ==
    LET s == String(raw)
        k == LeadingDigits(s)
    IN  IF k = 0 THEN NumV(0) ELSE NumV(DigitsToNat(SubSeq(s, 1, k)))

\* the column of field f is a number column
IsNumberField(f) ==
    f \in DOMAIN columnMetadataMap /\ columnMetadataMap[f].dataType = "number"

\* C17: for a number column, an inline cell edit and a header bulk edit store
\* the numeric value of a parseable input and 0 for an input that does not
\* parse as a number (the empty draft included), and raise no error.
C17_NumberInputFallsBackToZero ==
    [][/\ (/\ lastOp' = "handleCellChange"
            /\ dispatched' # <<>>
            /\ IsNumberField(dispatched'[1].fieldApi)) =>
            LET e == dispatched'[1]
            IN  /\ ~thrown'
                /\ e.newValue = ExpectedNumber(typed')
                /\ GetField(workingData'[workingDataMap[e.rowId]], e.fieldApi)
                       = ExpectedNumber(typed')
       /\ (BulkEditStep /\ IsNumberField(activeHeaderEditColumn.s)) =>
            /\ ~thrown'
            /\ \A i \in 1..Len(workingData) :
                   workingData[i].Id \in ScopeOfClaim =>
                       GetField(workingData'[i], activeHeaderEditColumn.s)
                           = ExpectedNumber(headerEditValue)]_vars

\* C17 witness: a cell edit has just received an input that is no number for
\* a number column, and the cell holds 0.
C17_Witness ==
    /\ lastOp = "handleCellChange"
    /\ ~thrown
    /\ typed = StrV(<<"x">>)
    /\ dispatched # <<>>
    /\ dispatched[1].fieldApi = AmountField
    /\ dispatched[1].newValue = NumV(0)
    /\ \E i \in 1..Len(workingData) :
          GetField(workingData[i], AmountField) = NumV(0)

\* the rows of the scope of a bulk edit, in the order of filteredRows
ScopeRows ==
    LET InScope(row) == row.Id \in ScopeOfClaim
    IN  SelectSeq(filteredRows, InScope)

\* C18: a cell edit that writes a cell emits exactly one datachanged event
\* carrying the row id, the field id, the value the cell held immediately
\* before the write and the value written, and one that writes nothing emits
\* none; a bulk edit whose scope has k rows emits exactly k events, one for
\* each row of scope in the order of the visible rows, and none for a row
\* outside scope.
C18_OneEventPerCellWrite ==
    [][/\ (lastOp' = "handleCellChange" /\ ~thrown') =>
            /\ Len(dispatched') <= 1
            /\ dispatched' = <<>> => UNCHANGED <<workingData, editedCells>>
            /\ dispatched' # <<>> =>
                  LET e == dispatched'[1]
                      i == workingDataMap[e.rowId]
                  IN  /\ e.type = "datachanged"
                      /\ e.oldValue = GetField(workingData[i], e.fieldApi)
                      /\ e.newValue = GetField(workingData'[i], e.fieldApi)
                      /\ workingData' = [workingData EXCEPT
                                           ![i] = SetField(@, e.fieldApi, e.newValue)]
                      /\ CellKey(e.rowId, e.fieldApi) \in editedCells'
       /\ (BulkEditStep /\ activeHeaderEditColumn.s \in DOMAIN columnMetadataMap) =>
            LET F == activeHeaderEditColumn.s
                v == ConvertInput(columnMetadataMap[F], headerEditValue)
            IN  /\ Len(dispatched') = Len(ScopeRows)
                /\ dispatched' =
                       [k \in 1..Len(ScopeRows) |->
                           DataChangedEvent(ScopeRows[k].Id, F,
                                            GetField(ScopeRows[k], F), v)]]_vars

\* C18 witness: a bulk edit has just emitted two events, for the first and
\* the second row in this order, the first one carrying a value that an
\* earlier write had stored as the old value.
C18_Witness ==
    /\ lastOp = "applyHeaderEdit"
    /\ Len(dispatched) = 2
    /\ dispatched[1].rowId = generateId(1)
    /\ dispatched[2].rowId = generateId(2)
    /\ dispatched[1].oldValue = StrV(<<>>)
    /\ dispatched[1].newValue = StrV(<<"x">>)
    /\ dispatched[2].oldValue = StrV(<<"y">>)

\* C19, as claimed: a row checkbox, select-all, Hide Selected, Hide
\* Unselected or Unhide All that changes the selection emits exactly one
\* rowsselected event whose selectedIds is the resulting selectedRowIds.
C19_AsClaimed ==
    [][(/\ lastOp' \in {"handleRowSelect", "handleSelectAll", "handleHideSelected",
                        "handleHideUnselected", "handleUnhideAll"}
        /\ selectedRowIds' # selectedRowIds) =>
          dispatched' = <<RowsSelectedEvent(selectedRowIds')>>]_vars

\* C20: at most one search commit is pending at any time; a search input
\* leaves exactly one pending commit, the one it scheduled, whatever was
\* pending before; the value a commit writes to searchTerm is the one of the
\* latest search input, so a value superseded by a later input is never
\* committed.
C20_OnePendingCommit ==
    [][/\ Cardinality(timeouts') <= 1
       /\ lastOp' = "handleSearchInput" =>
            timeouts' = {[id |-> searchDebounceTimer', value |-> typed'.s]}
       /\ lastOp' = "searchDebounceCallback" =>
            /\ timeouts = {[id |-> searchDebounceTimer, value |-> searchTerm']}
            /\ timeouts' = {}]_vars

\* C20 witness: a search input has just erased the text while the commit of
\* the term typed before was pending; only the commit of the empty text is
\* pending.
C20_Witness ==
    /\ lastOp = "handleSearchInput"
    /\ before.pending = {[id |-> 1, value |-> <<"X">>]}
    /\ typed = StrV(<<>>)
    /\ timeouts = {[id |-> searchDebounceTimer, value |-> <<>>]}

\* the ids of all rows
AllRowIds == IdsOf(workingData)

\* C21, as claimed: in every reachable state the keys of
\* hiddenRowCheckboxStates and the ids of visibleRowIds are disjoint and
\* together are exactly the set of all row ids.
C21_AsClaimed ==
    /\ (DOMAIN hiddenRowCheckboxStates) \cap visibleRowIds = {}
    /\ (DOMAIN hiddenRowCheckboxStates) \cup visibleRowIds = AllRowIds

\* C21, amended: in every reachable state hiddenRowIds and visibleRowIds are
\* disjoint and together are exactly the set of all row ids; the keys of
\* hiddenRowCheckboxStates are row ids and include every hidden id (they may
\* also include visible rows, recorded as selected by a Hide Unselected).
C21_HiddenAndVisiblePartition ==
    /\ hiddenRowIds \cap visibleRowIds = {}
    /\ hiddenRowIds \cup visibleRowIds = AllRowIds
    /\ hiddenRowIds \subseteq DOMAIN hiddenRowCheckboxStates
    /\ (DOMAIN hiddenRowCheckboxStates) \subseteq AllRowIds

\* C21 witness: one row is hidden and one is visible, and the memory of
\* checkbox states holds both.
C21_Witness ==
    /\ hiddenRowIds = {generateId(2)}
    /\ visibleRowIds = {generateId(1)}
    /\ DOMAIN hiddenRowCheckboxStates = {generateId(1), generateId(2)}
    /\ hiddenRowCheckboxStates[generateId(1)]
    /\ ~hiddenRowCheckboxStates[generateId(2)]

\* C22, as claimed: after Hide Selected, every id that was selected and is
\* now hidden is still a member of selectedRowIds.
C22_AsClaimed ==
    [][lastOp' = "handleHideSelected" =>
          \A id \in selectedRowIds :
              id \in hiddenRowIds' => id \in selectedRowIds']_vars

\* C22, amended: hiding prunes the selection: after Hide Selected and after
\* Hide Unselected selectedRowIds is empty; every row that was selected when
\* Hide Selected ran is hidden and memorised as selected in
\* hiddenRowCheckboxStates, and every row Hide Unselected hides is memorised
\* as not selected.
C22_HidingClearsSelection ==
    [][/\ lastOp' \in {"handleHideSelected", "handleHideUnselected"} =>
            selectedRowIds' = {}
       /\ lastOp' = "handleHideSelected" =>
            \A id \in selectedRowIds :
                /\ id \in hiddenRowIds'
                /\ hiddenRowCheckboxStates'[id]
       /\ lastOp' = "handleHideUnselected" =>
            \A id \in hiddenRowIds' \ hiddenRowIds :
                ~hiddenRowCheckboxStates'[id]]_vars

\* C22 witness: Hide Selected has just hidden the one selected row of two and
\* left nothing selected; the row is memorised as selected.
C22_Witness ==
    /\ lastOp = "handleHideSelected"
    /\ before.sel = {generateId(1)}
    /\ hiddenRowIds = {generateId(1)}
    /\ visibleRowIds = {generateId(2)}
    /\ selectedRowIds = {}
    /\ hiddenRowCheckboxStates[generateId(1)]

\* C23: in every reachable state selectedRowIds is a subset of visibleRowIds
\* (no hidden row is selected), row-checkbox and select-all events naming
\* only rows that are displayed.
C23_SelectionIsVisible ==
    /\ selectedRowIds \subseteq visibleRowIds
    /\ selectedRowIds \cap hiddenRowIds = {}

\* C23 witness: a row was hidden by Hide Selected, memorised as selected, and
\* the checkbox of the other row, which is visible, has just been checked.
C23_Witness ==
    /\ hiddenRowIds = {generateId(1)}
    /\ selectedRowIds = {generateId(2)}
    /\ visibleRowIds = {generateId(2)}
    /\ lastOp = "handleRowSelect"
    /\ hiddenRowCheckboxStates[generateId(1)]

\* C24: after resetToOriginal() visibleRowIds is the set of all row ids,
\* hiddenRowIds, hiddenRowCheckboxStates and selectedRowIds are empty,
\* hiddenRowCount is 0 and the search term is empty, so filteredRows is the
\* full row sequence.
C24_ResetRestoresScoping ==
    [][lastOp' = "resetToOriginal" =>
          /\ visibleRowIds' = IdsOf(originalData)
          /\ hiddenRowIds' = {}
          /\ DOMAIN hiddenRowCheckboxStates' = {}
          /\ selectedRowIds' = {}
          /\ hiddenRowCount' = 0
          /\ searchTerm' = <<>>
          /\ filteredRows' = workingData'
          /\ Len(filteredRows') = Len(originalData)]_vars

\* C24 witness: a reset has just run from a state in which a row was hidden
\* and another selected; every row is back in filteredRows.
C24_Witness ==
    /\ lastOp = "resetToOriginal"
    /\ before.hid = {generateId(1)}
    /\ before.sel = {generateId(2)}
    /\ Len(filteredRows) = NumRows
    /\ visibleRowIds = {generateId(i) : i \in 1..NumRows}
    /\ searchTerm = <<>>

\* text contains term when letter case is ignored
ContainsFolded(text, term) ==
    \E off \in 0..(Len(text) - Len(term)) :
        \A k \in 1..Len(term) : LowerChar(text[off + k]) = LowerChar(term[k])

\* the indexes of the working rows the claim makes visible: the id is in
\* visibleRowIds and, when a term is committed, some column value holds it
ClaimedVisible ==
    {i \in 1..Len(workingData) :
        /\ workingData[i].Id \in visibleRowIds
        /\ \/ searchTerm = <<>>
           \/ \E c \in 1..Len(columns) :
                  LET value == GetField(workingData[i], columns[c].field_api)
                  IN  /\ value.t \notin {"null", "undefined"}
                      /\ ContainsFolded(String(value), searchTerm)}

\* the k-th smallest element of a set of indexes
NthOf(S, k) == CHOOSE i \in S : Cardinality({j \in S : j < i}) = k - 1

AllVisibleSelected == IdsOf(filteredRows) \subseteq selectedRowIds

\* at least one row of filteredRows is selected, and not all of them
SomeNotAllVisibleSelected ==
    /\ IdsOf(filteredRows) \cap selectedRowIds # {}
    /\ ~(IdsOf(filteredRows) \subseteq selectedRowIds)

\* C26, as claimed: checked is true exactly when all rows of filteredRows
\* are selected, indeterminate is true exactly when at least one but not all
\* of them are selected, and the two are never true together, also when
\* filteredRows is empty; stated for the states in which the table is
\* rendered, the load being over.
C26_AsClaimed ==
    ~isLoading =>
        /\ selectAllChecked <=> AllVisibleSelected
        /\ selectAllIndeterminate <=> SomeNotAllVisibleSelected
        /\ ~(selectAllChecked /\ selectAllIndeterminate)

\* C26, amended: checked is true exactly when filteredRows is not empty and
\* all its rows are selected (it is false when no row is visible),
\* indeterminate is true exactly when at least one but not all rows of
\* filteredRows are selected, and the two are never true together.
C26_SelectAllStateIsDerived ==
    /\ selectAllChecked <=> (filteredRows # <<>> /\ AllVisibleSelected)
    /\ selectAllIndeterminate <=> SomeNotAllVisibleSelected
    /\ ~(selectAllChecked /\ selectAllIndeterminate)
    /\ filteredRows = <<>> => ~selectAllChecked /\ ~selectAllIndeterminate

\* C26 witness: both rows are selected and the committed term "X" leaves only
\* the first in filteredRows: checked is true and indeterminate false.
C26_Witness ==
    /\ searchTerm = <<"X">>
    /\ selectedRowIds = {generateId(1), generateId(2)}
    /\ IdsOf(filteredRows) = {generateId(1)}
    /\ selectAllChecked
    /\ ~selectAllIndeterminate

\* the draft a header-edit request on field f starts with, as claimed: false
\* for a boolean column and the empty string otherwise
ClaimedDraft(f) ==
    IF f \in DOMAIN columnMetadataMap /\ columnMetadataMap[f].dataType = "boolean"
    THEN BoolV(FALSE)
    ELSE StrV(<<>>)

\* C27, as claimed: Editing is entered only by a header-edit request, with
\* the draft false for a boolean column and the empty string otherwise; every
\* confirm and every cancel ends in Idle, activeHeaderEditColumn and
\* headerEditValue being null; in every reachable state
\* activeHeaderEditColumn is null exactly when headerEditValue is null.
C27_AsClaimed ==
    /\ [](activeHeaderEditColumn = NullV <=> headerEditValue = NullV)
    /\ [][/\ (activeHeaderEditColumn = NullV /\ activeHeaderEditColumn' # NullV) =>
                lastOp' = "handleHeaderDoubleClick"
          /\ lastOp' = "handleHeaderDoubleClick" =>
                /\ activeHeaderEditColumn'.t = "str"
                /\ headerEditValue' = ClaimedDraft(activeHeaderEditColumn'.s)
          /\ lastOp' \in {"applyHeaderEdit", "cancelHeaderEdit"} =>
                /\ activeHeaderEditColumn' = NullV
                /\ headerEditValue' = NullV]_vars

\* the commit of the typed value v is pending
CommitPending(v) == \E t \in timeouts : t.value = v

\* the commit of the typed value v has just run
CommitRan(v) == lastOp = "searchDebounceCallback" /\ searchTerm = v

\* C28: after a search input the pending commit eventually runs, unless a
\* further search input replaces it by the commit of another value; the
\* commit sets searchTerm to the value typed last and, when virtual
\* scrolling is enabled, visibleStartIndex to 0 and visibleEndIndex to
\* min(70, filteredRows.length) under the new term; a search input commits
\* nothing itself and leaves one commit pending, which the commit removes, so
\* a burst of inputs produces one commit.
C28_DebounceCommitFires ==
    /\ \A v \in SearchInputs :
           CommitPending(v) ~>
               (CommitRan(v) \/ \E w \in SearchInputs \ {v} : CommitPending(w))
    /\ [][/\ lastOp' = "handleSearchInput" =>
                /\ searchTerm' = searchTerm
                /\ timeouts' = {[id |-> searchDebounceTimer', value |-> typed'.s]}
          /\ lastOp' = "searchDebounceCallback" =>
                /\ timeouts = {[id |-> searchDebounceTimer, value |-> searchTerm']}
                /\ timeouts' = {}
                /\ virtualScrollEnabled =>
                       /\ visibleStartIndex' = 0
                       /\ visibleEndIndex' = Min(70, Len(filteredRows'))]_vars

\* C28 witness: with virtual scrolling enabled and the window at [80, 140),
\* the commit of "X" has just run: 251 rows match and the window is [0, 70).
C28_Witness ==
    /\ lastOp = "searchDebounceCallback"
    /\ virtualScrollEnabled
    /\ before.scroll.startIndex = 80
    /\ before.scroll.endIndex = 140
    /\ searchTerm = <<"X">>
    /\ timeouts = {}
    /\ Len(filteredRows) = 251
    /\ visibleStartIndex = 0
    /\ visibleEndIndex = 70

\* the handlers that clear the search filter
ClearingOps == {"handleClearSearch", "handleUnhideAll", "resetToOriginal"}

\* C29, as claimed: a clearing action (Clear Search, Unhide All,
\* resetToOriginal) leaves the committed search term empty, and the term is
\* still empty after the step that follows the clearing action, whatever it
\* is: a search input commits nothing itself, and a commit that runs then
\* was scheduled by a keystroke made before the clearing action.
C29_AsClaimed ==
    [][/\ lastOp' \in ClearingOps => searchTerm' = <<>>
       /\ lastOp \in ClearingOps => searchTerm' = <<>>]_vars

\* the step is a search operation: a search input, a debounce commit or
\* Clear Search
SearchStep ==
    lastOp' \in {"handleSearchInput", "searchDebounceCallback", "handleClearSearch"}

\* C30: a search input, a debounce commit and Clear Search change only the
\* search term, the pending commit and its handle, and the virtual-window
\* indices: visibleRowIds, hiddenRowIds, hiddenRowCheckboxStates,
\* selectedRowIds, workingData and editedCells, and the rest of the
\* component's state, are unchanged; after Clear Search filteredRows holds
\* exactly the rows whose id is in visibleRowIds.
C30_SearchLeavesScopingAlone ==
    [][/\ SearchStep =>
            UNCHANGED <<visibleRowIds, hiddenRowIds, hiddenRowCheckboxStates,
                        selectedRowIds, workingData, editedCells,
                        columns, columnMetadataMap, originalData,
                        workingDataMap, isLoading, activeHeaderEditColumn,
                        headerEditValue, hiddenRowCount, virtualScrollEnabled,
                        error>>
       /\ lastOp' = "handleClearSearch" =>
            /\ IdsOf(filteredRows') = visibleRowIds
            /\ Len(filteredRows') =
                   Cardinality({i \in 1..Len(workingData) :
                                   workingData[i].Id \in visibleRowIds})]_vars

\* C30 witness: Clear Search has just run with one row hidden, the other
\* selected and edited; filteredRows is the visible row, still selected.
C30_Witness ==
    /\ lastOp = "handleClearSearch"
    /\ hiddenRowIds = {generateId(1)}
    /\ selectedRowIds = {generateId(2)}
    /\ CellKey(generateId(2), NameField) \in editedCells
    /\ IdsOf(filteredRows) = {generateId(2)}

\* C31: Hide Unselected hides every id of visibleRowIds that is not selected,
\* the rows the search filter excludes included, and memorises each as not
\* selected: afterwards visibleRowIds is the previous visibleRowIds
\* intersected with the selection and the selection is empty; with an empty
\* selection it hides all rows, whereas Hide Selected with an empty selection
\* changes nothing.
C31_HideUnselectedHidesAllUnselected ==
    [][/\ lastOp' = "handleHideUnselected" =>
            /\ visibleRowIds' = visibleRowIds \cap selectedRowIds
            /\ hiddenRowIds' = hiddenRowIds \cup (visibleRowIds \ selectedRowIds)
            /\ \A id \in visibleRowIds \ selectedRowIds :
                   /\ id \in DOMAIN hiddenRowCheckboxStates'
                   /\ ~hiddenRowCheckboxStates'[id]
            /\ selectedRowIds' = {}
            /\ selectedRowIds = {} => visibleRowIds' = {}
       /\ (lastOp' = "handleHideSelected" /\ selectedRowIds = {}) =>
            UNCHANGED engineVars]_vars

\* C31 witness: with the term "X" committed, which the second row does not
\* match, and the first row selected, Hide Unselected has just hidden the
\* second row and memorised it as not selected.
C31_Witness ==
    /\ lastOp = "handleHideUnselected"
    /\ searchTerm = <<"X">>
    /\ before.sel = {generateId(1)}
    /\ before.hid = {}
    /\ GetField(workingData[2], NameField) = StrV(<<"y">>)
    /\ hiddenRowIds = {generateId(2)}
    /\ visibleRowIds = {generateId(1)}
    /\ ~hiddenRowCheckboxStates[generateId(2)]
    /\ selectedRowIds = {}

\* C32: in every reachable state visibleRowIds and hiddenRowIds are disjoint,
\* their union is the id set of workingData and hiddenRowCount is the size of
\* hiddenRowIds; the memorised flag of a row that is hidden is not
\* overwritten while the row stays hidden, that is before the next Unhide
\* All, load or reset.
C32_HiddenRowsKeepTheirFlag ==
    /\ [](/\ visibleRowIds \cap hiddenRowIds = {}
          /\ visibleRowIds \cup hiddenRowIds = {workingData[i].Id : i \in 1..Len(workingData)}
          /\ hiddenRowCount = Cardinality(hiddenRowIds))
    /\ [][/\ \A id \in hiddenRowIds \cap hiddenRowIds' :
                 /\ id \in DOMAIN hiddenRowCheckboxStates
                 /\ id \in DOMAIN hiddenRowCheckboxStates'
                 /\ hiddenRowCheckboxStates'[id] = hiddenRowCheckboxStates[id]
          /\ hiddenRowIds \subseteq hiddenRowIds' \/
                 lastOp' \in {"handleUnhideAll", "resetToOriginal", "setTableData",
                              "initializeMockData"}]_vars

\* C32 witness: the first row was hidden by Hide Selected and the second by a
\* later Hide Unselected; the first is still memorised as selected, the
\* second as not selected, and hiddenRowCount is 2.
C32_Witness ==
    /\ lastOp = "handleHideUnselected"
    /\ before.hid = {generateId(1)}
    /\ hiddenRowIds = {generateId(1), generateId(2)}
    /\ visibleRowIds = {}
    /\ hiddenRowCount = 2
    /\ hiddenRowCheckboxStates[generateId(1)]
    /\ ~hiddenRowCheckboxStates[generateId(2)]

\* C33: a load (setTableData, or the initial load of the mock data) replaces
\* the columns and the rows, makes every row visible and empties
\* hiddenRowIds, hiddenRowCheckboxStates, the selection and editedCells, and
\* leaves the committed search term, the active header-edit column and its
\* draft, and the pending debounce commit as they were: the term committed
\* before the load filters the newly loaded rows, and a header edit open
\* before the load is still open.
C33_LoadKeepsSearchAndHeaderEdit ==
    [][lastOp' \in {"setTableData", "initializeMockData"} =>
          /\ \E data \in HostDataSets :
                 /\ columns' = data.columns
                 /\ originalData' = data.rows
                 /\ workingData' = data.rows
          /\ visibleRowIds' = {workingData'[i].Id : i \in 1..Len(workingData')}
          /\ hiddenRowIds' = {}
          /\ hiddenRowCount' = 0
          /\ DOMAIN hiddenRowCheckboxStates' = {}
          /\ selectedRowIds' = {}
          /\ editedCells' = {}
          /\ searchTerm' = searchTerm
          /\ activeHeaderEditColumn' = activeHeaderEditColumn
          /\ headerEditValue' = headerEditValue
          /\ timeouts' = timeouts
          /\ searchDebounceTimer' = searchDebounceTimer
          /\ Len(filteredRows') = Cardinality(ClaimedVisible')
          /\ \A k \in 1..Len(filteredRows') :
                 filteredRows'[k] = workingData'[NthOf(ClaimedVisible', k)]]_vars

\* C33 witness: setTableData has just loaded the rows while the term "X" was
\* committed, a later keystroke was waiting for its debounce commit and the
\* name header was being edited; the term filters the new rows down to the
\* one whose name holds it, the header edit is still open and the commit is
\* still pending.
C33_Witness ==
    /\ lastOp = "setTableData"
    /\ searchTerm = <<"X">>
    /\ timeouts # {}
    /\ activeHeaderEditColumn = StrV(NameField)
    /\ headerEditValue.t = "str"
    /\ Len(workingData) = NumRows
    /\ IdsOf(filteredRows) = {generateId(1)}
    /\ selectedRowIds = {}
    /\ editedCells = {}

=============================================================================
